---- MODULE Spec2Model ----
(***************************************************************************)
(* LeadMagic MCP server: the tool adapters of src/src/server.ts, the HTTP  *)
(* client of src/src/client.ts (and the parallel basic client), the        *)
(* request schemas of src/src/types.ts, the error rendering, and the       *)
(* entry points (src/src/index.ts and its two parallel versions).          *)
(***************************************************************************)
EXTENDS FiniteSets, Integers, Sequences, TLC

VARIABLES
    impl,       \* which of the two client implementations is built in
    pc,         \* "idle" | "awaiting" | "done": position of the invocation
    call,       \* the tools/call request being served: [tool, args]
    requests,   \* HTTP requests issued by the current invocation, in order
    answer,     \* what the transport produced for the (last) request
    outcome,    \* how the client method settled: resolved / rejected
    result,     \* the response handed back to the MCP caller
    errIn,      \* a value given to handleError (error-rendering runs)
    errOut,     \* what handleError returned for errIn
    entry,      \* which entry point runs: "index" | "enhanced" | "basic"
    env,        \* process.env after dotenv: the three LEADMAGIC_ variables
    mpc,        \* position of main()
    apiKey,     \* main's local apiKey
    server,     \* the LeadMagicMCPServer built by main (its key and client)
    handlers,   \* SIGINT/SIGTERM listeners are registered
    conn,       \* "none" | "connecting" | "connected": server.connect
    pending,    \* signals received whose listener has not run yet
    shutdown,   \* "none" | "closing" | "closed" | "failed": server.close
    exit,       \* how the process ended: [code, cause], NoExit while it runs
    out,        \* what the program has printed or returned from its getters
    sent,       \* client settings of the HTTP requests issued so far
    slots,      \* the invocations being served concurrently, slot by slot
    step,       \* InstallerApp: the step on screen
    keyInput,   \* ApiKeyInput: the characters typed (its state "input")
    keyError,   \* ApiKeyInput: the message shown (its state "error")
    isValidating, \* ApiKeyInput: validateApiKey is between its first and last line
    keyCredits, \* ApiKeyInput: the credits shown, NoCredits for null
    timers,     \* pending setTimeout callbacks () => onNext(key), by key
    appKey,     \* InstallerApp: its state "apiKey"
    selectedClients, \* InstallerApp: the client ids chosen
    progress,   \* InstallationProgress: the results collected so far
    results,    \* InstallerApp: the results handed to onComplete
    fs,         \* the files on disk: configuration file of each client and .env
    last,       \* the last run of an install function: input, file before, result
    installs    \* how many times install functions have run

callVars == <<impl, pc, call, requests, answer, outcome, result, errIn, errOut>>

mainVars == <<entry, env, mpc, apiKey, server, handlers, conn, pending, shutdown, exit, out, sent>>

slotVars == <<slots>>

instVars == <<step, keyInput, keyError, isValidating, keyCredits, timers, appKey, selectedClients, progress, results, fs, last, installs>>

\* what the actions of one part leave alone of the other parts
notCallVars == <<mainVars, slotVars, instVars>>

notMainVars == <<callVars, slotVars, instVars>>

vars == <<impl, pc, call, requests, answer, outcome, result, errIn, errOut, entry, env, mpc, apiKey, server, handlers, conn, pending, shutdown, exit, out, sent, slots, step, keyInput, keyError, isValidating, keyCredits, timers, appKey, selectedClients, progress, results, fs, last, installs>>

----------------------------------------------------------------------------
(* Bounds of the model *)

\* at most this many keys are present in the arguments of one tools/call
MaxKeys == 3

\* handleError is run on every LeadMagicError status in 0..MaxStatus
MaxStatus == 640

\* the API keys of the startup runs have up to MaxKeyLen characters
\* between optional blanks
MaxKeyLen == 9

\* this many invocations are served at the same time
MaxCalls == 2

\* the install functions are run this many times on one set of files
MaxInstalls == 3

\* up to this many characters are typed into the API-key step
MaxInput == 11

----------------------------------------------------------------------------
(* JSON values: strings, numbers and null, as they arrive in a tools/call *)

Str(s) == [kind |-> "str", s |-> s, n |-> 0]
Num(n) == [kind |-> "num", s |-> "", n |-> n]
Null == [kind |-> "null", s |-> "", n |-> 0]

Emails == {"john@example.com"}
Urls == {"https://linkedin.com/in/john"}
ExperienceLevels == {"entry", "mid", "senior", "executive"}

\* the values the model feeds to a field, by the field's validator: one
\* that passes, and strings, numbers or null that do not
Candidates(v) ==
    CASE v = "string" -> {Str("Acme"), Num(1), Null}
      [] v = "email" -> {Str("john@example.com"), Str("Acme"), Null}
      [] v = "url" -> {Str("https://linkedin.com/in/john"), Str("Acme"), Null}
      [] v = "experience" -> {Str("senior"), Str("Acme")}
      [] v = "page" -> {Num(0), Num(1), Num(2), Str("Acme")}
      [] v = "per_page" -> {Num(0), Num(1), Num(50), Num(51), Null}

Values ==
    UNION {Candidates(v) :
            v \in {"string", "email", "url", "experience", "page", "per_page"}}

----------------------------------------------------------------------------
(* Schema layer: src/src/types.ts *)

\* a field of a z.object: its validator, and whether it may be absent
Req(v) == [v |-> v, presence |-> "required", def |-> 0]
Opt(v) == [v |-> v, presence |-> "optional", def |-> 0]
Dflt(v, d) == [v |-> v, presence |-> "default", def |-> d]

NoFields == [k \in {} |-> Req("string")]

EmailValidationRequestSchema ==
    [k \in {"email", "first_name", "last_name"} |->
        IF k = "email" THEN Req("email") ELSE Opt("string")]

EmailFinderRequestSchema ==
    [k \in {"first_name", "last_name", "domain", "company_name"} |->
        IF k \in {"first_name", "last_name"} THEN Req("string") ELSE Opt("string")]

RoleFinderRequestSchema_titleOptional ==
    [k \in {"job_title", "company_name", "company_domain", "company_profile_url"} |->
        IF k = "company_profile_url" THEN Opt("url") ELSE Opt("string")]

ProfileSearchRequestSchema == [k \in {"profile_url"} |-> Req("url")]

CompanySearchRequestSchema ==
    [k \in {"company_domain", "company_name", "profile_url"} |->
        IF k = "profile_url" THEN Opt("url") ELSE Opt("string")]

MobileFinderRequestSchema_workEmailRequired ==
    [k \in {"profile_url", "work_email", "personal_email"} |->
        CASE k = "profile_url" -> Opt("url")
          [] k = "work_email" -> Req("email")
          [] OTHER -> Opt("email")]

MobileFinderRequestSchema ==
    [k \in {"profile_url", "work_email", "personal_email"} |->
        IF k = "profile_url" THEN Opt("url") ELSE Opt("email")]

B2BProfileRequestSchema == [k \in {"work_email"} |-> Req("email")]

JobsFinderRequestSchema ==
    [k \in {"company_name", "company_website", "job_title", "location",
            "experience_level", "job_description", "country_id",
            "page", "per_page"} |->
        CASE k = "experience_level" -> Opt("experience")
          [] k = "page" -> Dflt("page", 1)
          [] k = "per_page" -> Dflt("per_page", 20)
          [] OTHER -> Opt("string")]

RoleFinderRequestSchema ==
    [k \in {"job_title", "company_name", "company_domain", "company_profile_url"} |->
        CASE k = "job_title" -> Req("string")
          [] k = "company_profile_url" -> Opt("url")
          [] OTHER -> Opt("string")]

EmployeeFinderRequestSchema ==
    [k \in {"company_name", "page", "per_page"} |->
        CASE k = "company_name" -> Req("string")
          [] k = "page" -> Dflt("page", 1)
          [] k = "per_page" -> Dflt("per_page", 20)]

CompanyFundingRequestSchema_domainRequired ==
    [k \in {"company_domain", "company_name"} |->
        IF k = "company_domain" THEN Req("string") ELSE Opt("string")]

CompanyFundingRequestSchema ==
    [k \in {"company_domain", "company_name"} |-> Opt("string")]

PersonalEmailFinderRequestSchema == [k \in {"profile_url"} |-> Req("url")]

B2BSocialEmailRequestSchema == [k \in {"profile_url"} |-> Req("url")]

AdsSearchRequestSchema ==
    [k \in {"company_domain", "company_name"} |-> Opt("string")]

B2BAdDetailsRequestSchema == [k \in {"ad_id"} |-> Req("string")]

FieldOk_perPageUnbounded(v, x) ==
    CASE v = "string" -> x.kind = "str"
      [] v = "email" -> x.kind = "str" /\ x.s \in Emails
      [] v = "url" -> x.kind = "str" /\ x.s \in Urls
      [] v = "experience" -> x.kind = "str" /\ x.s \in ExperienceLevels
      [] v = "page" -> x.kind = "num" /\ x.n >= 1
      [] v = "per_page" -> x.kind = "num" /\ x.n >= 1

\* z.string(), .email(), .url(), z.enum([...]), z.number().min(1)[.max(50)]
FieldOk(v, x) ==
    CASE v = "string" -> x.kind = "str"
      [] v = "email" -> x.kind = "str" /\ x.s \in Emails
      [] v = "url" -> x.kind = "str" /\ x.s \in Urls
      [] v = "experience" -> x.kind = "str" /\ x.s \in ExperienceLevels
      [] v = "page" -> x.kind = "num" /\ x.n >= 1
      [] v = "per_page" -> x.kind = "num" /\ x.n >= 1 /\ x.n <= 50

\* ZodObject.safeParse succeeds: every present key passes its validator and
\* only optional or defaulted keys are absent
ParseOk(schema, args) ==
    \A k \in DOMAIN schema :
        IF k \in DOMAIN args
        THEN FieldOk(schema[k].v, args[k])
        ELSE schema[k].presence # "required"

ParseData_nullForAbsent(schema, args) ==
    [k \in DOMAIN schema |->
        IF k \in DOMAIN args THEN args[k]
        ELSE IF schema[k].presence = "default" THEN Num(schema[k].def)
        ELSE Null]

\* ZodObject.parse output: unknown keys stripped, absent optional keys left
\* out, absent defaulted keys filled in
ParseData(schema, args) ==
    [k \in {j \in DOMAIN schema :
                j \in DOMAIN args \/ schema[j].presence = "default"} |->
        IF k \in DOMAIN args THEN args[k] ELSE Num(schema[k].def)]

----------------------------------------------------------------------------
(* Tool registry: src/src/server.ts, setupTools *)

Tools ==
    {"get_credits", "validate_email", "find_email", "find_personal_email",
     "social_to_work_email", "search_profile", "search_company",
     "email_to_profile", "find_jobs", "find_role", "find_employees",
     "get_job_countries", "get_job_types", "find_mobile",
     "get_company_funding", "search_google_ads", "search_meta_ads",
     "search_b2b_ads", "get_b2b_ad_details"}

AdsTools == {"search_google_ads", "search_meta_ads", "search_b2b_ads"}

\* the inputSchema each tool is registered with
InputSchema(t) ==
    CASE t = "validate_email" -> EmailValidationRequestSchema
      [] t = "find_email" -> EmailFinderRequestSchema
      [] t = "find_personal_email" -> PersonalEmailFinderRequestSchema
      [] t = "social_to_work_email" -> B2BSocialEmailRequestSchema
      [] t = "search_profile" -> ProfileSearchRequestSchema
      [] t = "search_company" -> CompanySearchRequestSchema
      [] t = "email_to_profile" -> B2BProfileRequestSchema
      [] t = "find_jobs" -> JobsFinderRequestSchema
      [] t = "find_role" -> RoleFinderRequestSchema
      [] t = "find_employees" -> EmployeeFinderRequestSchema
      [] t = "find_mobile" -> MobileFinderRequestSchema
      [] t = "get_company_funding" -> CompanyFundingRequestSchema
      [] t \in AdsTools -> AdsSearchRequestSchema
      [] t = "get_b2b_ad_details" -> B2BAdDetailsRequestSchema
      [] OTHER -> NoFields

\* the handlers that parse their parameters again before calling the client
HandlerParses(t) == t \in {"validate_email", "find_email"}

\* the handlers that take no parameters: async () => ...
TakesNoParams(t) == t \in {"get_credits", "get_job_countries", "get_job_types"}

\* the names in the order setupTools registers them
RegisteredTools ==
    <<"get_credits", "validate_email", "find_email", "find_personal_email",
      "social_to_work_email", "search_profile", "search_company",
      "email_to_profile", "find_jobs", "find_role", "find_employees",
      "get_job_countries", "get_job_types", "find_mobile",
      "get_company_funding", "search_google_ads", "search_meta_ads",
      "search_b2b_ads", "get_b2b_ad_details">>

\* getServerInfo().toolCount
toolCount == 19

----------------------------------------------------------------------------
(* HTTP client: src/src/client.ts; the basic client is the parallel one *)

ClientMethod_allPost(t) == "POST"

ClientMethod(t) ==
    IF t \in {"get_job_countries", "get_job_types"} THEN "GET" ELSE "POST"

ClientPath(t) ==
    CASE t = "get_credits" -> "/credits"
      [] t = "validate_email" -> "/email-validate"
      [] t = "find_email" -> "/email-finder"
      [] t = "search_profile" -> "/profile-search"
      [] t = "search_company" -> "/company-search"
      [] t = "find_mobile" -> "/mobile-finder"
      [] t = "email_to_profile" -> "/b2b-profile"
      [] t = "find_jobs" -> "/jobs-finder"
      [] t = "find_role" -> "/role-finder"
      [] t = "find_employees" -> "/employee-finder"
      [] t = "get_company_funding" -> "/company-funding"
      [] t = "find_personal_email" -> "/personal-email-finder"
      [] t = "social_to_work_email" -> "/b2b-social-email"
      [] t = "search_google_ads" -> "/google/searchads"
      [] t = "search_meta_ads" -> "/meta/searchads"
      [] t = "search_b2b_ads" -> "/b2b/searchads"
      [] t = "get_b2b_ad_details" -> "/b2b/ad-details"
      [] t = "get_job_countries" -> "/job-country"
      [] t = "get_job_types" -> "/job-types"

EmptyObject == [k \in {} |-> Null]

\* the one HTTP request a client method issues for the handler's parameters:
\* this.client.post(path, request) / this.client.get(path)
ClientRequest(t, params) ==
    [method |-> ClientMethod(t),
     path |-> ClientPath(t),
     hasBody |-> ClientMethod(t) = "POST",
     body |-> IF ClientMethod(t) = "POST" /\ ~TakesNoParams(t)
              THEN params ELSE EmptyObject]

ClientRequests_sentTwice(t, params) ==
    <<ClientRequest(t, params), ClientRequest(t, params)>>

\* the requests a client method sends before it settles: one, never resent
ClientRequests(t, params) == <<ClientRequest(t, params)>>

----------------------------------------------------------------------------
(* Remote answers and what the HTTP library makes of them *)

Absent == "<absent>"

\* a response body as axios hands it over in response.data
\*   kind:    "object" | "array" | "text" | "empty" | "null"
\*   fields:  the fields of the declared response shape the object carries
\*   error, message: the error body's fields (Absent when not there)
Body(kind, fields, error, message) ==
    [kind |-> kind, fields |-> fields, error |-> error, message |-> message]

NoBody == Body("none", {}, Absent, Absent)

\* the fields the handlers' summaries read with a method call or .length
ShapeFields == {"credits", "total_count", "ads"}

Bodies ==
    {Body("object", ShapeFields, Absent, Absent),
     Body("object", {}, Absent, Absent),
     Body("object", {}, "unauthorized", "Invalid API key"),
     Body("object", {}, Absent, "Too many requests"),
     Body("array", {}, Absent, Absent),
     Body("text", {}, Absent, Absent),
     Body("empty", {}, Absent, Absent),
     Body("null", {}, Absent, Absent)}

RemoteStatuses == {200, 204, 304, 400, 401, 404, 429, 500, 503, 999}

\* what the transport produces for one request
\*   "response":    the remote answered with a status and a body
\*   "no_response": the request was sent, nothing came back
\*                  (DNS failure, connection refused, timeout)
\*   "setup":       the library failed before sending (an AxiosError with
\*                  neither request nor response)
\*   "exception":   something that is no AxiosError was thrown in the chain
Answer(kind, status, body, why) ==
    [kind |-> kind, status |-> status, body |-> body, why |-> why]

NoAnswer == Answer("none", 0, NoBody, "")

Answers ==
    {Answer("response", st, b, "") : st \in RemoteStatuses, b \in Bodies}
    \cup {Answer("no_response", 0, NoBody, w) :
            w \in {"ENOTFOUND", "ECONNREFUSED", "ECONNABORTED"}}
    \cup {Answer("setup", 0, NoBody, "ERR_BAD_OPTION"),
          Answer("exception", 0, NoBody, "Error"),
          Answer("exception", 0, NoBody, "thrown value")}

\* an exception value: cls is its class, the rest its properties
Exception(cls, name, status, code, message, hasResponse, hasRequest, data) ==
    [cls |-> cls, name |-> name, status |-> status, code |-> code,
     message |-> message, hasResponse |-> hasResponse,
     hasRequest |-> hasRequest, data |-> data]

NoException == Exception("none", "", 0, "", "", FALSE, FALSE, NoBody)

\* new LeadMagicError(status, code, message, response)
LeadMagicError(status, code, message, response) ==
    Exception("LeadMagicError", "LeadMagicError", status, code, message,
              FALSE, FALSE, response)

isClientError_inclusive(e) == e.status >= 400 /\ e.status <= 500

isClientError(e) == e.status >= 400 /\ e.status < 500

isServerError(e) == e.status >= 500 /\ e.status < 600

isNetworkError(e) == e.status = 0

\* validateStatus of the axios instance: the enhanced client accepts every
\* status below 600, the basic client keeps the library default (2xx)
ValidateStatus(i, status) ==
    IF i = "enhanced" THEN status < 600 ELSE status >= 200 /\ status < 300

\* the rejection the HTTP library raises for an answer it does not accept
RawError(a) ==
    CASE a.kind = "response" ->
            Exception("AxiosError", "AxiosError", a.status, "ERR_BAD_REQUEST",
                      "Request failed with status code", TRUE, TRUE, a.body)
      [] a.kind = "no_response" ->
            Exception("AxiosError", "AxiosError", 0, a.why, a.why,
                      FALSE, TRUE, NoBody)
      [] a.kind = "setup" ->
            Exception("AxiosError", "AxiosError", 0, a.why, "Invalid option",
                      FALSE, FALSE, NoBody)
      [] a.kind = "exception" ->
            IF a.why = "Error"
            THEN Exception("Error", "Error", 0, "", "unexpected failure",
                           FALSE, FALSE, NoBody)
            ELSE Exception("Other", "", 0, "", Absent, FALSE, FALSE, NoBody)

\* JavaScript's a || b on strings that may be absent or empty
OrElse(a, b) == IF a \in {Absent, ""} THEN b ELSE a

transformError_requestUnchecked(error) ==
    IF error.cls = "AxiosError" /\ error.hasResponse
    THEN LeadMagicError(error.status, OrElse(error.data.error, "API_ERROR"),
                        OrElse(error.data.message,
                               OrElse(error.message, "Request failed")),
                        error.data)
    ELSE LeadMagicError(0, "REQUEST_ERROR",
             OrElse(error.message, "Request configuration error"), NoBody)

\* LeadMagicClient.transformError (enhanced client)
transformError(error) ==
    IF error.cls = "AxiosError"
    THEN IF error.hasResponse
         THEN LeadMagicError(error.status,
                             OrElse(error.data.error, "API_ERROR"),
                             OrElse(error.data.message,
                                    OrElse(error.message, "Request failed")),
                             error.data)
         ELSE IF error.hasRequest
         THEN LeadMagicError(0, "NETWORK_ERROR",
                  "Network error occurred - please check your connection",
                  NoBody)
         ELSE LeadMagicError(0, "REQUEST_ERROR",
                  OrElse(error.message, "Request configuration error"), NoBody)
    ELSE LeadMagicError(500, "UNKNOWN_ERROR",
             IF error.cls = "Error" THEN error.message
             ELSE "Unknown error occurred", NoBody)

\* the response interceptor's error branch of the basic client
BasicInterceptError(error) ==
    IF error.hasResponse
    THEN LeadMagicError(error.status,
                        OrElse(error.data.error, "API_ERROR"),
                        OrElse(error.data.message, error.message),
                        error.data)
    ELSE IF error.hasRequest
    THEN LeadMagicError(0, "NETWORK_ERROR", "Network error occurred", NoBody)
    ELSE LeadMagicError(0, "UNKNOWN_ERROR", error.message, NoBody)

InterceptError_passThrough(i, error) == error

\* the response interceptor's rejection handler of either client
InterceptError(i, error) ==
    IF i = "enhanced" THEN transformError(error) ELSE BasicInterceptError(error)

\* how a client method settles
Settled(kind, data, error) == [kind |-> kind, data |-> data, error |-> error]

NotSettled == Settled("none", NoBody, NoException)

\* await this.client.post(...) ; return response.data
\* an accepted status resolves through the interceptor's success branch,
\* which returns the response untouched
ClientSettle(i, a) ==
    IF a.kind = "response" /\ ValidateStatus(i, a.status)
    THEN Settled("resolved", a.body, NoException)
    ELSE Settled("rejected", NoBody, InterceptError(i, RawError(a)))

----------------------------------------------------------------------------
(* Response formatter and tool handlers: src/src/server.ts *)

\* what a tools/call ends with
\*   kind "success":  formatSuccessResponse's text (message, summary, data)
\*   kind "error":    handleError's text (errorMessage, errorDetails,
\*                    troubleshooting, help line)
\*   kind "invalid_params": the MCP runtime refused the arguments
Response(kind, headline, message, details, code, status, type, troubleshooting, hasSummary, hasData, data) ==
    [kind |-> kind, headline |-> headline, message |-> message,
     details |-> details, code |-> code, status |-> status, type |-> type,
     troubleshooting |-> troubleshooting, hasSummary |-> hasSummary,
     hasData |-> hasData, data |-> data,
     content |-> IF kind \in {"success", "error"} THEN <<"text">> ELSE <<>>]

NoResponse == Response("none", "", "", "", "", 0, "", "", FALSE, FALSE, NoBody)

InvalidParams ==
    Response("invalid_params", "Invalid arguments for tool", "", "", "", 0,
             "", "", FALSE, FALSE, NoBody)

CheckApiKey ==
    "Please check your API key is valid and has sufficient permissions."
RateLimited ==
    "Rate limit exceeded. Please wait a moment before making more requests."
CheckRequired ==
    "Please check that all required parameters are provided and valid."
VerifyParams == "Please verify your request parameters and try again."
ServerTrouble == "LeadMagic server error. Please try again in a few moments."
NetworkTrouble ==
    "Network connectivity issue. Please check your internet connection."
CheckInput == "Please check your input parameters and try again."
ContactSupport == "Please try again or contact support if the issue persists."

\* the troubleshooting line handleError picks for a LeadMagicError
Troubleshooting(error) ==
    IF isClientError(error)
    THEN CASE error.status = 401 -> CheckApiKey
           [] error.status = 429 -> RateLimited
           [] error.status = 400 -> CheckRequired
           [] OTHER -> VerifyParams
    ELSE IF isServerError(error) THEN ServerTrouble
    ELSE IF isNetworkError(error) THEN NetworkTrouble
    ELSE ""

\* LeadMagicMCPServer.handleError
handleError(error) ==
    IF error.cls = "LeadMagicError"
    THEN Response("error", "LeadMagic API Error", error.message, "code_status",
                  error.code, error.status, "", Troubleshooting(error),
                  FALSE, FALSE, NoBody)
    ELSE IF error.cls \in {"Error", "AxiosError"}
    THEN Response("error", "Error", error.message, "type", "", 0, error.name,
                  CheckInput, FALSE, FALSE, NoBody)
    ELSE Response("error", "An unknown error occurred", "", "type", "", 0,
                  "Unknown", ContactSupport, FALSE, FALSE, NoBody)

\* JavaScript truthiness of response.data
Truthy(body) == body.kind \in {"object", "array", "text"}

\* the handlers that pass a summary line to formatSuccessResponse
HasSummary(t) == ~TakesNoParams(t)

\* the data a handler passes to formatSuccessResponse: the result itself,
\* get_credits a fresh object { credits: result.credits }
SuccessData(t, body) ==
    IF t = "get_credits"
    THEN Body("object", body.fields \cap {"credits"}, Absent, Absent)
    ELSE body

\* LeadMagicMCPServer.formatSuccessResponse
formatSuccessResponse(message, data, hasSummary) ==
    Response("success", "", message, "", "", 0, "", "", hasSummary,
             Truthy(data), IF Truthy(data) THEN data ELSE NoBody)

\* building the message and summary dereferences the result: a property of
\* null, or a method of a field that is not there, raises a TypeError
SummaryThrows(t, body) ==
    \/ body.kind = "null"
    \/ t = "get_credits" /\ "credits" \notin body.fields
    \/ t = "find_jobs" /\ "total_count" \notin body.fields
    \/ t \in AdsTools /\ "ads" \notin body.fields

TypeError ==
    Exception("Error", "TypeError", 0, "", "Cannot read properties of undefined",
              FALSE, FALSE, NoBody)

ZodError ==
    Exception("Error", "ZodError", 0, "", "Required", FALSE, FALSE, NoBody)

\* the handler from the point where the client method has settled:
\*   try { result = await client.op(params); return formatSuccessResponse(..) }
\*   catch (error) { return handleError(error) }
HandlerFinish(t, settled) ==
    IF settled.kind = "rejected" THEN handleError(settled.error)
    ELSE IF SummaryThrows(t, settled.data) THEN handleError(TypeError)
    ELSE formatSuccessResponse(t, SuccessData(t, settled.data), HasSummary(t))

----------------------------------------------------------------------------
(* Process environment and the values main() works with *)

\* an environment variable that is not set
Unset == "<unset>"

\* strings whose characters matter are sequences of one-character strings
Repeat(c, n) == [i \in 1..n |-> c]

Dots == <<".", ".", ".">>

\* the values of LEADMAGIC_API_KEY: up to MaxKeyLen key characters, with or
\* without a blank in front and behind (the empty and the blank values
\* included)
ApiKeys ==
    {Repeat(" ", l) \o Repeat("k", n) \o Repeat(" ", r) :
        l \in 0..1, n \in 0..MaxKeyLen, r \in 0..1}

BaseUrls == {"https://proxy.example.com"}

Timeouts == {"5000"}

Env(key, baseUrl, timeout) ==
    [LEADMAGIC_API_KEY |-> key, LEADMAGIC_BASE_URL |-> baseUrl,
     LEADMAGIC_TIMEOUT |-> timeout]

NoEnv == Env(<<Unset>>, Unset, Unset)

\* String.prototype.trim
RECURSIVE Trim(_)
Trim(s) ==
    IF s = <<>> THEN s
    ELSE IF Head(s) = " " THEN Trim(Tail(s))
    ELSE IF s[Len(s)] = " " THEN Trim(SubSeq(s, 1, Len(s) - 1))
    ELSE s

\* !apiKey: undefined or the empty string
Falsy(key) == key = <<Unset>> \/ key = <<>>

DefaultBaseUrl == "https://api.leadmagic.io"

DefaultTimeout == 30000

\* new LeadMagicClient(config): an option that is absent (<<>>) or falsy
\* takes its default
LeadMagicClient(config) ==
    [apiKey |-> config.apiKey,
     baseUrl |-> IF config.baseUrl = <<>> \/ config.baseUrl = <<"">>
                 THEN DefaultBaseUrl ELSE config.baseUrl[1],
     timeout |-> IF config.timeout = <<>> \/ config.timeout = <<0>>
                 THEN DefaultTimeout ELSE config.timeout[1]]

\* new LeadMagicMCPServer(apiKey), for a key that is not blank: the key is
\* trimmed and the client is built from the key alone
LeadMagicMCPServer(key) ==
    [apiKey |-> Trim(key),
     client |-> LeadMagicClient(
                    [apiKey |-> Trim(key), baseUrl |-> <<>>, timeout |-> <<>>])]

NoServer ==
    [apiKey |-> <<>>,
     client |-> [apiKey |-> <<>>, baseUrl |-> "", timeout |-> 0]]

\* the constructor's guard: throws 'Valid LeadMagic API key is required'
ConstructorThrows(key) == Falsy(key) \/ Trim(key) = <<>>

\* axios.create({ baseURL, timeout, headers: { 'X-API-Key': apiKey } })
createHttpClient(client) ==
    [baseURL |-> client.baseUrl, timeout |-> client.timeout,
     xApiKey |-> client.apiKey]

\* apiKey.substring(0, 8) + '...'
Mask(key) ==
    SubSeq(key, 1, IF Len(key) < 8 THEN Len(key) ELSE 8) \o Dots

\* one output: which line or value it is, and the text in it that
\* depends on the key
Output(line, text) == [line |-> line, text |-> text]

\* LeadMagicClient.getConfig
getConfig(client) ==
    [apiKey |-> Mask(client.apiKey), baseUrl |-> client.baseUrl,
     timeout |-> client.timeout]

\* LeadMagicMCPServer.getServerInfo
getServerInfo(srv) ==
    [name |-> "leadmagic-mcp-server", version |-> "1.0.0",
     toolCount |-> toolCount, apiKeyMasked |-> Mask(srv.apiKey),
     clientConfig |-> getConfig(srv.client)]

Exit(code, cause) == [code |-> code, cause |-> cause]

NoExit == Exit(-1, "running")

\* the process-level variables while only the tool handlers are looked at
MainAtRest ==
    /\ entry = "index"
    /\ env = NoEnv
    /\ mpc = "start"
    /\ apiKey = <<>>
    /\ server = NoServer
    /\ handlers = FALSE
    /\ conn = "none"
    /\ pending = {}
    /\ shutdown = "none"
    /\ exit = NoExit
    /\ out = {}
    /\ sent = {}

\* one invocation in flight: where its handler is, what it was called
\* with, the request it issued with the axios settings it went out with,
\* the remote answer and the response
Slot(p, c, reqs, http, a, r) ==
    [pc |-> p, call |-> c, requests |-> reqs, http |-> http, answer |-> a, result |-> r]

SlotsAtRest == slots = <<>>

\* the installer's variables while the server is looked at
InstAtRest ==
    /\ step = "none"
    /\ keyInput = <<>>
    /\ keyError = ""
    /\ isValidating = FALSE
    /\ keyCredits = -1
    /\ timers = <<>>
    /\ appKey = <<>>
    /\ selectedClients = <<>>
    /\ progress = <<>>
    /\ results = <<>>
    /\ fs = <<>>
    /\ last = <<>>
    /\ installs = 0

----------------------------------------------------------------------------
(* One tools/call from arrival to response *)

Call(tool, args, accepted, params) ==
    [tool |-> tool, args |-> args, accepted |-> accepted, params |-> params]

NoCall == Call("", EmptyObject, FALSE, EmptyObject)

\* the argument objects over the keys K of a schema: each key takes every
\* candidate value of its validator
RECURSIVE ArgsOver(_, _)
ArgsOver(schema, K) ==
    IF K = {} THEN {EmptyObject}
    ELSE LET k == CHOOSE j \in K : TRUE
         IN {[j \in K |-> IF j = k THEN x ELSE f[j]] :
                f \in ArgsOver(schema, K \ {k}), x \in Candidates(schema[k].v)}

\* the argument objects the model sends to tool t: any value for up to
\* MaxKeys of the keys of its input schema
Inputs(t) ==
    UNION {ArgsOver(InputSchema(t), K) :
           K \in {J \in SUBSET DOMAIN InputSchema(t) : Cardinality(J) <= MaxKeys}}

\* registerTool(name, {inputSchema}, handler): the MCP runtime parses the
\* arguments with the registered schema and runs the handler on the parsed
\* data only when that succeeds
RuntimeAccepts(t, args) == ParseOk(InputSchema(t), args)

RuntimeParams(t, args) == ParseData(InputSchema(t), args)

\* Schema.parse(params) at the head of a handler that has one
HandlerRejects(t, params) ==
    HandlerParses(t) /\ ~ParseOk(InputSchema(t), params)

HandlerParams(t, params) ==
    IF HandlerParses(t) THEN ParseData(InputSchema(t), params) ELSE params

Init ==
    /\ impl \in {"enhanced", "basic"}
    /\ pc = "idle"
    /\ call = NoCall
    /\ requests = <<>>
    /\ answer = NoAnswer
    /\ outcome = NotSettled
    /\ result = NoResponse
    /\ errIn = NoException
    /\ errOut = NoResponse
    /\ MainAtRest
    /\ SlotsAtRest
    /\ InstAtRest

\* a tools/call arrives: runtime validation, then the handler up to its await
CallTool(t, args) ==
    /\ pc = "idle"
    /\ IF ~RuntimeAccepts(t, args)
       THEN /\ call' = Call(t, args, FALSE, EmptyObject)
            /\ requests' = <<>>
            /\ result' = InvalidParams
            /\ pc' = "done"
       ELSE IF HandlerRejects(t, RuntimeParams(t, args))
       THEN /\ call' = Call(t, args, FALSE, EmptyObject)
            /\ requests' = <<>>
            /\ result' = handleError(ZodError)
            /\ pc' = "done"
       ELSE /\ call' = Call(t, args, TRUE,
                            HandlerParams(t, RuntimeParams(t, args)))
            /\ requests' = ClientRequests(t, HandlerParams(t, RuntimeParams(t, args)))
            /\ result' = NoResponse
            /\ pc' = "awaiting"
    /\ answer' = NoAnswer
    /\ outcome' = NotSettled
    /\ UNCHANGED <<impl, errIn, errOut>>
    /\ UNCHANGED notCallVars

\* the transport produces its answer; the client method settles and the
\* handler runs to its return
Settle(a) ==
    /\ pc = "awaiting"
    /\ answer' = a
    /\ outcome' = ClientSettle(impl, a)
    /\ result' = HandlerFinish(call.tool, ClientSettle(impl, a))
    /\ pc' = "done"
    /\ UNCHANGED <<impl, call, requests, errIn, errOut>>
    /\ UNCHANGED notCallVars

\* the response has been delivered; the server waits for the next call
Return ==
    /\ pc = "done"
    /\ pc' = "idle"
    /\ call' = NoCall
    /\ requests' = <<>>
    /\ answer' = NoAnswer
    /\ outcome' = NotSettled
    /\ result' = NoResponse
    /\ UNCHANGED <<impl, errIn, errOut>>
    /\ UNCHANGED notCallVars

Next ==
    \/ pc = "idle" /\ \E t \in Tools : \E args \in Inputs(t) : CallTool(t, args)
    \/ \E a \in Answers : Settle(a)
    \/ Return

Spec == Init /\ [][Next]_vars

----------------------------------------------------------------------------
(* handleError on its own, over every value it can be given *)

ErrorCodes == {"API_ERROR", "NETWORK_ERROR", "REQUEST_ERROR", "UNKNOWN_ERROR"}

ErrorValues ==
    {LeadMagicError(st, c, "failure", NoBody) :
        st \in 0..MaxStatus, c \in ErrorCodes}
    \cup {TypeError, ZodError, RawError(Answer("exception", 0, NoBody, "thrown value"))}

ErrInit ==
    /\ Init
    /\ impl = "enhanced"

\* a handler's catch block receives e
Catch(e) ==
    /\ errIn = NoException
    /\ errIn' = e
    /\ UNCHANGED <<impl, pc, call, requests, answer, outcome, result, errOut>>
    /\ UNCHANGED notCallVars

\* handleError(error) builds the response
Render ==
    /\ errIn # NoException
    /\ errOut = NoResponse
    /\ errOut' = handleError(errIn)
    /\ UNCHANGED <<impl, pc, call, requests, answer, outcome, result, errIn>>
    /\ UNCHANGED notCallVars

ErrNext ==
    \/ \E e \in ErrorValues : Catch(e)
    \/ Render

SpecErr == ErrInit /\ [][ErrNext]_vars

----------------------------------------------------------------------------
(* The entry point: main() of src/src/index.ts, of the enhanced version    *)
(* with getApiKey and setupShutdownHandlers, and of the basic version      *)

Entries == {"index", "enhanced", "basic"}

Signals == {"SIGINT", "SIGTERM"}

\* the lines main prints
KeyNotFoundHelp == Output("key_not_found_help", <<>>)
InvalidKeyHelp == Output("invalid_key_help", <<>>)
FailedToStart == Output("failed_to_start", <<>>)
ShuttingDown == Output("shutting_down", <<>>)

\* exit status of a process terminated by a signal it does not handle
KilledBy(sig) == Exit(IF sig = "SIGINT" THEN 130 ELSE 143, "signal")

Running == exit = NoExit

MainInit ==
    /\ impl = "enhanced"
    /\ pc = "idle"
    /\ call = NoCall
    /\ requests = <<>>
    /\ answer = NoAnswer
    /\ outcome = NotSettled
    /\ result = NoResponse
    /\ errIn = NoException
    /\ errOut = NoResponse
    /\ entry \in Entries
    /\ env \in {Env(k, b, t) : k \in ApiKeys \cup {<<Unset>>},
                              b \in BaseUrls \cup {Unset},
                              t \in Timeouts \cup {Unset}}
    /\ mpc = "start"
    /\ apiKey = <<>>
    /\ server = NoServer
    /\ handlers = FALSE
    /\ conn = "none"
    /\ pending = {}
    /\ shutdown = "none"
    /\ exit = NoExit
    /\ out = {}
    /\ sent = {}
    /\ SlotsAtRest
    /\ InstAtRest

\* const apiKey = process.env.LEADMAGIC_API_KEY; if (!apiKey) { ... exit(1) }
\* the enhanced getApiKey also refuses a blank key and returns the key trimmed
GetApiKey ==
    /\ Running
    /\ mpc = "start"
    /\ IF Falsy(env.LEADMAGIC_API_KEY)
       THEN /\ out' = out \cup {KeyNotFoundHelp}
            /\ exit' = Exit(1, "missing_key")
            /\ UNCHANGED <<mpc, apiKey>>
       ELSE IF entry = "enhanced" /\ Trim(env.LEADMAGIC_API_KEY) = <<>>
       THEN /\ out' = out \cup {InvalidKeyHelp}
            /\ exit' = Exit(1, "missing_key")
            /\ UNCHANGED <<mpc, apiKey>>
       ELSE /\ apiKey' = IF entry = "enhanced" THEN Trim(env.LEADMAGIC_API_KEY)
                         ELSE env.LEADMAGIC_API_KEY
            /\ mpc' = "checked"
            /\ UNCHANGED <<out, exit>>
    /\ UNCHANGED <<entry, env, server, handlers, conn, pending, shutdown, sent>>
    /\ UNCHANGED notMainVars

\* createLeadMagicServer(apiKey); a constructor that throws lands in main's
\* catch block: 'Failed to start server', process.exit(1)
CreateServer ==
    /\ Running
    /\ mpc = "checked"
    /\ IF ConstructorThrows(apiKey)
       THEN /\ out' = out \cup {FailedToStart}
            /\ exit' = Exit(1, "startup_failure")
            /\ UNCHANGED <<mpc, server>>
       ELSE /\ server' = LeadMagicMCPServer(apiKey)
            /\ mpc' = "created"
            /\ UNCHANGED <<out, exit>>
    /\ UNCHANGED <<entry, env, apiKey, handlers, conn, pending, shutdown, sent>>
    /\ UNCHANGED notMainVars

\* process.on('SIGINT', ...); process.on('SIGTERM', ...): after the server
\* is created (index, enhanced), after connect has resolved (basic)
RegisterHandlers ==
    /\ Running
    /\ \/ entry # "basic" /\ mpc = "created"
       \/ entry = "basic" /\ mpc = "connected"
    /\ handlers' = TRUE
    /\ mpc' = IF entry = "basic" THEN "running" ELSE "registered"
    /\ UNCHANGED <<entry, env, apiKey, server, conn, pending, shutdown, exit, out, sent>>
    /\ UNCHANGED notMainVars

\* console.error(`API Key: ${apiKey.substring(0, 8)}...`)
StartupLog ==
    /\ Running
    /\ entry # "basic"
    /\ mpc = "registered"
    /\ out' = out \cup {Output("api_key_line", Mask(apiKey))}
    /\ mpc' = "logged"
    /\ UNCHANGED <<entry, env, apiKey, server, handlers, conn, pending, shutdown, exit, sent>>
    /\ UNCHANGED notMainVars

\* await server.connect(transport): the call, up to the await
Connect ==
    /\ Running
    /\ \/ entry # "basic" /\ mpc = "logged"
       \/ entry = "basic" /\ mpc = "created"
    /\ conn' = "connecting"
    /\ mpc' = "awaiting"
    /\ UNCHANGED <<entry, env, apiKey, server, handlers, pending, shutdown, exit, out, sent>>
    /\ UNCHANGED notMainVars

\* server.connect settles: main goes on, or its catch block exits with 1
ConnectSettles(ok) ==
    /\ Running
    /\ mpc = "awaiting"
    /\ IF ok
       THEN /\ conn' = "connected"
            /\ mpc' = IF entry = "basic" THEN "connected" ELSE "running"
            /\ UNCHANGED <<out, exit>>
       ELSE /\ conn' = "none"
            /\ out' = out \cup {FailedToStart}
            /\ exit' = Exit(1, "startup_failure")
            /\ UNCHANGED mpc
    /\ UNCHANGED <<entry, env, apiKey, server, handlers, pending, shutdown, sent>>
    /\ UNCHANGED notMainVars

\* the process receives a signal: with a listener registered the listener
\* is queued, without one the signal terminates the process at once
Signal(sig) ==
    /\ Running
    /\ IF handlers
       THEN /\ pending' = pending \cup {sig}
            /\ UNCHANGED exit
       ELSE /\ exit' = KilledBy(sig)
            /\ UNCHANGED pending
    /\ UNCHANGED <<entry, env, mpc, apiKey, server, handlers, conn, shutdown, out, sent>>
    /\ UNCHANGED notMainVars

\* the listener runs once main has yielded to the event loop, up to its
\* await: console.error(...); await server.close()
RunHandler(sig) ==
    /\ Running
    /\ sig \in pending
    /\ mpc \in {"awaiting", "running"}
    /\ pending' = pending \ {sig}
    /\ out' = out \cup {ShuttingDown}
    /\ shutdown' = IF shutdown = "none" THEN "closing" ELSE shutdown
    /\ UNCHANGED <<entry, env, mpc, apiKey, server, handlers, conn, exit, sent>>
    /\ UNCHANGED notMainVars

\* server.close() settles: process.exit(0) when it resolves; when it
\* rejects, the enhanced listener's catch calls process.exit(1), and the
\* other listeners' rejection is unhandled, which ends the process with 1
CloseSettles(ok) ==
    /\ Running
    /\ shutdown = "closing"
    /\ shutdown' = IF ok THEN "closed" ELSE "failed"
    /\ exit' = IF ok THEN Exit(0, "shutdown") ELSE Exit(1, "close_failed")
    /\ UNCHANGED <<entry, env, mpc, apiKey, server, handlers, conn, pending, out, sent>>
    /\ UNCHANGED notMainVars

\* server.getServerInfo() is called on the created server
GetServerInfo ==
    /\ Running
    /\ server # NoServer
    /\ out' = out \cup
          {Output("getServerInfo.apiKeyMasked", getServerInfo(server).apiKeyMasked),
           Output("getServerInfo.clientConfig.apiKey",
                  getServerInfo(server).clientConfig.apiKey)}
    /\ UNCHANGED <<entry, env, mpc, apiKey, server, handlers, conn, pending, shutdown, exit, sent>>
    /\ UNCHANGED notMainVars

\* client.getConfig() is called on the server's client
GetConfig ==
    /\ Running
    /\ server # NoServer
    /\ out' = out \cup {Output("getConfig.apiKey", getConfig(server.client).apiKey)}
    /\ UNCHANGED <<entry, env, mpc, apiKey, server, handlers, conn, pending, shutdown, exit, sent>>
    /\ UNCHANGED notMainVars

\* a tool handler of the connected server issues its HTTP request through
\* the axios instance the client built in its constructor
Request ==
    /\ Running
    /\ conn = "connected"
    /\ sent' = sent \cup {createHttpClient(server.client)}
    /\ UNCHANGED <<entry, env, mpc, apiKey, server, handlers, conn, pending, shutdown, exit, out>>
    /\ UNCHANGED notMainVars

MainNext ==
    \/ GetApiKey
    \/ CreateServer
    \/ RegisterHandlers
    \/ StartupLog
    \/ Connect
    \/ \E ok \in BOOLEAN : ConnectSettles(ok)
    \/ \E sig \in Signals : Signal(sig)
    \/ \E sig \in Signals : RunHandler(sig)
    \/ \E ok \in BOOLEAN : CloseSettles(ok)
    \/ GetServerInfo
    \/ GetConfig
    \/ Request

SpecMain == MainInit /\ [][MainNext]_vars

----------------------------------------------------------------------------
(* Several invocations in flight on one server: the handlers share the     *)
(* LeadMagicClient built by the constructor                                *)

\* the tools and answers of the concurrent runs
ConcTools == {"get_credits", "find_jobs", "search_company", "validate_email"}

ConcAnswers ==
    {Answer("response", 200, Body("object", ShapeFields, Absent, Absent), ""),
     Answer("response", 200, Body("object", {}, Absent, Absent), ""),
     Answer("response", 401, Body("object", {}, "unauthorized", "Invalid API key"), ""),
     Answer("no_response", 0, NoBody, "ECONNREFUSED")}

NoHttp == [baseURL |-> "", timeout |-> 0, xApiKey |-> <<>>]

IdleSlot == Slot("idle", NoCall, <<>>, NoHttp, NoAnswer, NoResponse)

ClientAfter_timeoutCleared(client, t) == [client EXCEPT !.timeout = 0]

\* the client's fields after one of its methods has run: the methods
\* assign none (apiKey, baseUrl and timeout are readonly)
ClientAfter(client, t) == client

ConcInit ==
    /\ impl \in {"enhanced", "basic"}
    /\ pc = "idle"
    /\ call = NoCall
    /\ requests = <<>>
    /\ answer = NoAnswer
    /\ outcome = NotSettled
    /\ result = NoResponse
    /\ errIn = NoException
    /\ errOut = NoResponse
    /\ entry = "index"
    /\ env \in {Env(Repeat("k", n), Unset, Unset) : n \in {1, MaxKeyLen}}
    /\ mpc = "running"
    /\ apiKey = env.LEADMAGIC_API_KEY
    /\ server = LeadMagicMCPServer(env.LEADMAGIC_API_KEY)
    /\ handlers = TRUE
    /\ conn = "connected"
    /\ pending = {}
    /\ shutdown = "none"
    /\ exit = NoExit
    /\ out = {}
    /\ sent = {}
    /\ slots = [i \in 1..MaxCalls |-> IdleSlot]
    /\ InstAtRest

\* a tools/call arrives while others may be in flight: runtime validation,
\* then the handler up to its await, through the shared client
Invoke(i, t, args) ==
    /\ slots[i].pc = "idle"
    /\ IF ~RuntimeAccepts(t, args)
       THEN /\ slots' = [slots EXCEPT ![i] =
                    Slot("done", Call(t, args, FALSE, EmptyObject), <<>>, NoHttp,
                         NoAnswer, InvalidParams)]
            /\ UNCHANGED server
       ELSE IF HandlerRejects(t, RuntimeParams(t, args))
       THEN /\ slots' = [slots EXCEPT ![i] =
                    Slot("done", Call(t, args, FALSE, EmptyObject), <<>>, NoHttp,
                         NoAnswer, handleError(ZodError))]
            /\ UNCHANGED server
       ELSE /\ slots' = [slots EXCEPT ![i] =
                    Slot("awaiting",
                         Call(t, args, TRUE, HandlerParams(t, RuntimeParams(t, args))),
                         ClientRequests(t, HandlerParams(t, RuntimeParams(t, args))),
                         createHttpClient(server.client), NoAnswer, NoResponse)]
            /\ server' = [server EXCEPT !.client = ClientAfter(server.client, t)]
    /\ UNCHANGED <<entry, env, mpc, apiKey, handlers, conn, pending, shutdown, exit, out, sent>>
    /\ UNCHANGED callVars
    /\ UNCHANGED instVars

\* the answer to the request of slot i arrives; its handler runs to its return
Finish(i, a) ==
    /\ slots[i].pc = "awaiting"
    /\ slots' = [slots EXCEPT ![i] =
            [@ EXCEPT !.pc = "done", !.answer = a,
                      !.result = HandlerFinish(slots[i].call.tool, ClientSettle(impl, a))]]
    /\ UNCHANGED mainVars
    /\ UNCHANGED callVars
    /\ UNCHANGED instVars

\* the response of slot i has been delivered
Deliver(i) ==
    /\ slots[i].pc = "done"
    /\ slots' = [slots EXCEPT ![i] = IdleSlot]
    /\ UNCHANGED mainVars
    /\ UNCHANGED callVars
    /\ UNCHANGED instVars

ConcNext ==
    \/ \E i \in 1..MaxCalls : \E t \in ConcTools : Invoke(i, t, EmptyObject)
    \/ \E i \in 1..MaxCalls : \E a \in ConcAnswers : Finish(i, a)
    \/ \E i \in 1..MaxCalls : Deliver(i)

SpecConc == ConcInit /\ [][ConcNext]_vars

----------------------------------------------------------------------------
(* The Ink installer, src/install.tsx: configuration files as text         *)

\* A file's content is a sequence of characters. The characters that the
\* comment-stripping expression and JSON.parse tell apart are themselves;
\* any other element ("theme", "src", ...) stands for a run of letters.
Quote == "\""

NL == "\n"

Blank == " "

Whitespace == {Blank, NL}

\* JSON values: strings, objects (members in insertion order) and arrays;
\* Undefined is what reading a missing property gives
JString(text) == [kind |-> "string", text |-> text, items |-> <<>>]

Member(k, v) == [key |-> k, val |-> v]

JObject(members) == [kind |-> "object", text |-> <<>>, items |-> members]

\* the elements of an array are kept as members without a key
JArray(elements) ==
    [kind |-> "array", text |-> <<>>,
     items |-> [i \in 1..Len(elements) |-> Member(<<>>, elements[i])]]

Undefined == [kind |-> "undefined", text |-> <<>>, items |-> <<>>]

\* obj[k]
GetMember(obj, k) ==
    IF \E i \in 1..Len(obj.items) : obj.items[i].key = k
    THEN obj.items[CHOOSE i \in 1..Len(obj.items) : obj.items[i].key = k].val
    ELSE Undefined

\* obj[k] = v: an existing key keeps its place, a new one goes last
SetMember(members, k, v) ==
    IF \E i \in 1..Len(members) : members[i].key = k
    THEN [i \in 1..Len(members) |->
             IF members[i].key = k THEN Member(k, v) ELSE members[i]]
    ELSE Append(members, Member(k, v))

\* ---- JSON.parse ----

Parsed(ok, val, next) == [ok |-> ok, val |-> val, next |-> next]

SyntaxError == Parsed(FALSE, Undefined, 0)

\* the least position of the set S of positions
First(S) == CHOOSE j \in S : \A k \in S : j <= k

\* the first position from i on that holds no white space, past the end of
\* the text when there is none
SkipWs(s, i) == First({j \in i..Len(s) : s[j] \notin Whitespace} \cup {Len(s) + 1})

\* the closing quote of the string whose body starts at i, 0 when the
\* string is not closed on its line (a raw line break is not allowed)
StringEnd(s, i) ==
    LET e == First({j \in i..Len(s) : s[j] \in {Quote, NL}} \cup {Len(s) + 1})
    IN  IF e <= Len(s) /\ s[e] = Quote THEN e ELSE 0

\* the string that opens at i
ParseString(s, i) ==
    LET e == StringEnd(s, i + 1)
    IN  IF e = 0 THEN SyntaxError
        ELSE Parsed(TRUE, JString(SubSeq(s, i + 1, e - 1)), e + 1)

RECURSIVE ParseValue(_, _)
RECURSIVE ParseMembers(_, _, _)
RECURSIVE ParseElements(_, _, _)
ParseValue(s, i0) ==
    LET i == SkipWs(s, i0)
    IN  IF i > Len(s) THEN SyntaxError
        ELSE IF s[i] = Quote THEN ParseString(s, i)
        ELSE IF s[i] = "{"
        THEN LET j == SkipWs(s, i + 1)
             IN  IF j <= Len(s) /\ s[j] = "}"
                 THEN Parsed(TRUE, JObject(<<>>), j + 1)
                 ELSE ParseMembers(s, j, <<>>)
        ELSE IF s[i] = "["
        THEN LET j == SkipWs(s, i + 1)
             IN  IF j <= Len(s) /\ s[j] = "]"
                 THEN Parsed(TRUE, JArray(<<>>), j + 1)
                 ELSE ParseElements(s, j, <<>>)
        ELSE SyntaxError

\* "key": value, ... } from i on; a key met again takes the later value
ParseMembers(s, i0, acc) ==
    LET i == SkipWs(s, i0)
    IN  IF i > Len(s) \/ s[i] # Quote THEN SyntaxError
        ELSE LET k == ParseString(s, i)
             IN  IF ~k.ok THEN SyntaxError
                 ELSE LET c == SkipWs(s, k.next)
                      IN  IF c > Len(s) \/ s[c] # ":" THEN SyntaxError
                          ELSE LET v == ParseValue(s, c + 1)
                               IN  IF ~v.ok THEN SyntaxError
                                   ELSE LET d == SkipWs(s, v.next)
                                            acc2 == SetMember(acc, k.val.text, v.val)
                                        IN  IF d > Len(s) THEN SyntaxError
                                            ELSE IF s[d] = "," THEN ParseMembers(s, d + 1, acc2)
                                            ELSE IF s[d] = "}" THEN Parsed(TRUE, JObject(acc2), d + 1)
                                            ELSE SyntaxError

\* value, ... ] from i on
ParseElements(s, i0, acc) ==
    LET v == ParseValue(s, i0)
    IN  IF ~v.ok THEN SyntaxError
        ELSE LET d == SkipWs(s, v.next)
                 acc2 == Append(acc, v.val)
             IN  IF d > Len(s) THEN SyntaxError
                 ELSE IF s[d] = "," THEN ParseElements(s, d + 1, acc2)
                 ELSE IF s[d] = "]" THEN Parsed(TRUE, JArray(acc2), d + 1)
                 ELSE SyntaxError

\* JSON.parse(text): one value with nothing but white space around it
JSONparse(s) ==
    LET v == ParseValue(s, 1)
    IN  IF v.ok /\ SkipWs(s, v.next) > Len(s) THEN v ELSE SyntaxError

\* ---- JSON.stringify(value, null, 2) ----

Indent(n) == [i \in 1..n |-> Blank]

RECURSIVE Stringify(_, _)
RECURSIVE StringifyItems(_, _, _, _)
Stringify(v, n) ==
    IF v.kind = "string" THEN <<Quote>> \o v.text \o <<Quote>>
    ELSE IF v.items = <<>>
    THEN IF v.kind = "object" THEN <<"{", "}">> ELSE <<"[", "]">>
    ELSE <<IF v.kind = "object" THEN "{" ELSE "[", NL>>
         \o StringifyItems(v.kind, v.items, 1, n + 2)
         \o <<NL>> \o Indent(n)
         \o <<IF v.kind = "object" THEN "}" ELSE "]">>

StringifyItems(kind, items, i, n) ==
    LET one == Indent(n)
               \o (IF kind = "object"
                   THEN <<Quote>> \o items[i].key \o <<Quote, ":", Blank>>
                   ELSE <<>>)
               \o Stringify(items[i].val, n)
    IN  IF i = Len(items) THEN one
        ELSE one \o <<",", NL>> \o StringifyItems(kind, items, i + 1, n)

JSONstringify(v) == Stringify(v, 0)

\* ---- content.replace(/\/\*[\s\S]*?\*\/|([^\\:]|^)\/\/.*$/gm, '$1') ----

\* where the first "*/" at or after j starts, 0 when there is none
BlockEnd(s, j) ==
    First({k \in j..(Len(s) - 1) : s[k] = "*" /\ s[k + 1] = "/"} \cup {Len(s) + 1}) % (Len(s) + 1)

\* where the line that holds position j ends: at its line break or past
\* the end of the text
LineEnd(s, j) ==
    IF j > Len(s) THEN j
    ELSE First({k \in j..Len(s) : s[k] = NL} \cup {Len(s) + 1})

\* ^ under the m flag
AtLineStart(s, i) == i = 1 \/ s[i - 1] = NL

SlashSlash(s, i) == i + 1 <= Len(s) /\ s[i] = "/" /\ s[i + 1] = "/"

\* the three ways the expression matches at position i: a block comment,
\* "//" behind a character that is not ":" (group 1), "//" at the start of
\* a line
BlockAt(s, i) ==
    i + 1 <= Len(s) /\ s[i] = "/" /\ s[i + 1] = "*" /\ BlockEnd(s, i + 2) # 0

BehindAt(s, i) == s[i] # ":" /\ SlashSlash(s, i + 1)

LineStartAt(s, i) == AtLineStart(s, i) /\ SlashSlash(s, i)

MatchAt(s, i) == BlockAt(s, i) \/ BehindAt(s, i) \/ LineStartAt(s, i)

\* the scan of the global replace from position i: the text up to the
\* next match is kept, the match is replaced by its group 1, and the scan
\* goes on behind the match; at one position the alternatives are tried
\* in the order block, behind, line start
RECURSIVE StripFrom(_, _)
StripFrom(s, i) ==
    LET m == First({j \in i..Len(s) : MatchAt(s, j)} \cup {Len(s) + 1})
    IN  IF m > Len(s) THEN SubSeq(s, i, Len(s))
        ELSE SubSeq(s, i, m - 1)
             \o (IF BlockAt(s, m) THEN StripFrom(s, BlockEnd(s, m + 2) + 2)
                 ELSE IF BehindAt(s, m) THEN <<s[m]>> \o StripFrom(s, LineEnd(s, m + 3))
                 ELSE StripFrom(s, LineEnd(s, m + 2)))

StripComments(content) == StripFrom(content, 1)

\* jsonString.trim() === ''
IsBlank(s) == \A i \in 1..Len(s) : s[i] \in Whitespace

\* ---- files ----

\* a path on disk: whether a file is there, its content, and whether the
\* operating system denies access to it (EACCES)
File(exists, content, denied) ==
    [exists |-> exists, content |-> content, denied |-> denied]

NoFile == File(FALSE, <<>>, FALSE)

TextFile(content) == File(TRUE, content, FALSE)

\* what a function ends with: a value returned or an error thrown
Returned(v) == [thrown |-> FALSE, val |-> v, code |-> "", message |-> ""]

Thrown(code, message) ==
    [thrown |-> TRUE, val |-> Undefined, code |-> code, message |-> message]

NotValidJson == "The existing configuration file is not valid JSON. Please fix or remove it and try again."

\* JSON.parse(jsonString) and the catch block around it
ParseOrThrow(p) == IF p.ok THEN Returned(p.val) ELSE Thrown("", NotValidJson)

\* if (jsonString.trim() === '') return {}; return JSON.parse(jsonString)
ParseStripped(jsonString) ==
    IF IsBlank(jsonString) THEN Returned(JObject(<<>>))
    ELSE ParseOrThrow(JSONparse(jsonString))

\* readConfigSafely(configPath)
readConfigSafely(f) ==
    IF ~f.exists THEN Returned(JObject(<<>>))
    ELSE IF f.denied THEN Thrown("EACCES", "permission denied")
    ELSE ParseStripped(StripComments(f.content))

\* getFriendlyFileSystemError(error, filePath)
getFriendlyFileSystemError(e) ==
    IF e.code = "EACCES" THEN "Permission Denied: Could not write to the file."
    ELSE IF e.code # "" THEN "A file system error occurred."
    ELSE e.message

\* ---- the install functions ----

Clients == {"claude", "cursor", "windsurf", "continue", "vscode", "zed"}

\* the clients whose servers are a map, and the Continue.dev array
MapClients == Clients \ {"continue"}

Targets == Clients \cup {"env"}

\* the client field of the results
ClientName(c) ==
    CASE c = "claude" -> "Claude Desktop"
      [] c = "cursor" -> "Cursor (Cline)"
      [] c = "windsurf" -> "Windsurf"
      [] c = "continue" -> "Continue.dev"
      [] c = "vscode" -> "VS Code"
      [] c = "zed" -> "Zed Editor"
      [] c = "env" -> ".env file"

\* the key of the configuration the servers are written under
TargetKey(c) ==
    IF c \in {"cursor", "vscode"} THEN <<"cline.mcpServers">> ELSE <<"mcpServers">>

\* leadmagicServerConfig(apiKey)
leadmagicServerConfig(key) ==
    JObject(<<Member(<<"command">>, JString(<<"leadmagic-mcp-server">>)),
              Member(<<"env">>,
                     JObject(<<Member(<<"LEADMAGIC_API_KEY">>, JString(key))>>))>>)

\* { name: "leadmagic", ...leadmagicServerConfig(apiKey) }
ContinueServerConfig(key) ==
    JObject(<<Member(<<"name">>, JString(<<"leadmagic">>))>>
            \o leadmagicServerConfig(key).items)

Digits == <<"0", "1", "2", "3", "4", "5", "6", "7", "8", "9">>

\* { ...v }: the own members of an object, the elements of an array under
\* their indices, the characters of a string under theirs, nothing of
\* undefined
Spread(v) ==
    IF v.kind = "object" THEN v.items
    ELSE IF v.kind = "array"
    THEN [i \in 1..Len(v.items) |-> Member(<<Digits[i]>>, v.items[i].val)]
    ELSE IF v.kind = "string"
    THEN [i \in 1..Len(v.text) |-> Member(<<Digits[i]>>, JString(<<v.text[i]>>))]
    ELSE <<>>

\* an InstallationResult
InstallationResult(client, success, message, configAdded) ==
    [client |-> ClientName(client), success |-> success, message |-> message,
     configPath |-> client, configAdded |-> configAdded]

\* what an install function leaves: the file and the result it returns
Installed(file, res) == [file |-> file, result |-> res]

\* the catch block of an install function: the file is as it was
InstallFailed(c, f, e) ==
    Installed(f, InstallationResult(c, FALSE, getFriendlyFileSystemError(e), Undefined))

\* writeConfig(configPath, config), which fails when access is denied, and
\* the return that follows it
InstallWrites(c, f, config, serverConfig) ==
    IF f.denied
    THEN InstallFailed(c, f, Thrown("EACCES", "permission denied"))
    ELSE Installed(TextFile(JSONstringify(config)),
                   InstallationResult(c, TRUE, "Configured successfully", serverConfig))

CannotCreateProperty == "Cannot create property on string"

NotAFunction == "config.mcpServers.filter is not a function"

\* server => server.name !== 'leadmagic'
NotLeadmagic(m) ==
    ~(m.val.kind = "object" /\ GetMember(m.val, <<"name">>) = JString(<<"leadmagic">>))

\* config.mcpServers of Continue.dev's configuration
ServersOf(config) ==
    IF config.kind = "object" THEN GetMember(config, <<"mcpServers">>) ELSE Undefined

\* !v for the values a configuration holds: undefined and the empty string
Not(v) == v = Undefined \/ v = JString(<<>>)

\* old.filter(...) followed by push(serverConfig)
FilterPush(old, serverConfig) ==
    [kind |-> "array", text |-> <<>>,
     items |-> Append(IF Not(old) THEN <<>> ELSE SelectSeq(old.items, NotLeadmagic),
                      Member(<<>>, serverConfig))]

\* the body of installForContinue once the configuration has been read:
\*   if (!config.mcpServers) config.mcpServers = [];
\*   config.mcpServers = config.mcpServers.filter(...); config.mcpServers.push(serverConfig)
UpdateArray(f, config, serverConfig) ==
    IF config.kind = "string"
    THEN InstallFailed("continue", f, Thrown("", CannotCreateProperty))
    ELSE IF config.kind = "array"
    THEN InstallWrites("continue", f, config, serverConfig)
    ELSE IF ~Not(ServersOf(config)) /\ ServersOf(config).kind # "array"
    THEN InstallFailed("continue", f, Thrown("", NotAFunction))
    ELSE InstallWrites("continue", f,
             JObject(SetMember(config.items, <<"mcpServers">>,
                               FilterPush(ServersOf(config), serverConfig))),
             serverConfig)

\* the body of installForClaude, installForCursor, installForWindsurf,
\* installForVSCode and installForZed once the configuration has been read:
\*   config[key] = { ...config[key], leadmagic: serverConfig }
\* a property set on an array is not written by JSON.stringify, a property
\* cannot be set on a string
UpdateMap(c, f, config, serverConfig) ==
    IF config.kind = "string"
    THEN InstallFailed(c, f, Thrown("", CannotCreateProperty))
    ELSE IF config.kind = "array"
    THEN InstallWrites(c, f, config, serverConfig)
    ELSE InstallWrites(c, f,
             JObject(SetMember(config.items, TargetKey(c),
                 JObject(SetMember(Spread(GetMember(config, TargetKey(c))),
                                   <<"leadmagic">>, serverConfig)))),
             serverConfig)

\* try { config = readConfigSafely(configPath); ... } catch { ... }
AfterRead(c, f, read, key) ==
    IF read.thrown THEN InstallFailed(c, f, read)
    ELSE IF c = "continue" THEN UpdateArray(f, read.val, ContinueServerConfig(key))
    ELSE UpdateMap(c, f, read.val, leadmagicServerConfig(key))

installForMap(c, f, key) == AfterRead(c, f, readConfigSafely(f), key)

installForContinue(f, key) == AfterRead("continue", f, readConfigSafely(f), key)

\* createEnvFile(apiKey): the comment lines and the key in clear
EnvContent(key) ==
    <<"# LeadMagic MCP Server Configuration", NL, "LEADMAGIC_API_KEY=">> \o key \o <<NL>>

createEnvFile(f, key) ==
    IF f.denied
    THEN InstallFailed("env", f, Thrown("EACCES", "permission denied"))
    ELSE Installed(TextFile(EnvContent(key)),
                   InstallationResult("env", TRUE, "Created for local development", Undefined))

\* installationMap[clientId](apiKey)
installationMap(c, f, key) ==
    IF c = "env" THEN createEnvFile(f, key)
    ELSE IF c = "continue" THEN installForContinue(f, key)
    ELSE installForMap(c, f, key)

----------------------------------------------------------------------------
(* The install functions run on existing configuration files *)

\* the server's variables while the installer is looked at
ServerAtRest ==
    /\ impl = "enhanced"
    /\ pc = "idle"
    /\ call = NoCall
    /\ requests = <<>>
    /\ answer = NoAnswer
    /\ outcome = NotSettled
    /\ result = NoResponse
    /\ errIn = NoException
    /\ errOut = NoResponse
    /\ MainAtRest
    /\ SlotsAtRest

\* the API keys given to the install functions
InstallKeys == {Repeat("k", 10), Repeat("q", 10)}

OtherServer == JObject(<<Member(<<"command">>, JString(<<"other-server">>))>>)

NamedServer(name, arg) ==
    JObject(<<Member(<<"name">>, JString(<<name>>)), Member(<<"args">>, JString(arg))>>)

Dark == Member(<<"theme">>, JString(<<"dark">>))

\* a glob pattern as editors' settings hold them: src/**/lib
Glob == <<"src", "/", "*", "*", "/", "lib">>

\* configurations a client may have on disk, with its servers under k
MapConfigs(k) ==
    {JObject(<<>>),
     JObject(<<Dark, Member(k, JObject(<<Member(<<"other">>, OtherServer)>>))>>),
     JObject(<<Member(k, JObject(<<Member(<<"leadmagic">>, leadmagicServerConfig(Repeat("o", 10))),
                                   Member(<<"other">>, OtherServer)>>)), Dark>>),
     JObject(<<Member(<<"url">>, JString(<<"https", ":", "/", "/", "host">>)),
               Member(k, JObject(<<Member(<<"other">>, OtherServer)>>))>>),
     JObject(<<Member(<<"include">>, JString(Glob)),
               Member(k, JObject(<<Member(<<"other">>, OtherServer)>>))>>),
     JObject(<<Member(<<"first">>, JString(<<"lib", "/", "*">>)),
               Member(k, JObject(<<Member(<<"other">>, OtherServer)>>)),
               Member(<<"second">>, JString(<<"*", "/", "dist">>))>>),
     JObject(<<Member(<<"path">>, JString(<<"a", "/", "/", "b">>))>>),
     JObject(<<Member(k, JArray(<<OtherServer>>))>>)}

ContinueConfigs ==
    {JObject(<<>>),
     JObject(<<Member(<<"mcpServers">>,
                      JArray(<<NamedServer("other", <<"x">>),
                               ContinueServerConfig(Repeat("o", 10)),
                               NamedServer("third", <<"y">>)>>)), Dark>>),
     JObject(<<Dark, Member(<<"mcpServers">>, JArray(<<>>))>>),
     JObject(<<Member(<<"mcpServers">>,
                      JArray(<<NamedServer("other", Glob), JString(<<"plain">>)>>))>>),
     JObject(<<Member(<<"mcpServers">>,
                      JObject(<<Member(<<"other">>, OtherServer)>>))>>),
     JObject(<<Member(<<"path">>, JString(<<"a", "/", "/", "b">>))>>)}

\* texts that no JSON.stringify wrote: comments, a truncated file, a blank
\* file, an array and a string at the top
OtherTexts ==
    {<<"{", NL, "/", "/", "note", NL, Quote, "theme", Quote, ":", Quote, "dark", Quote, NL, "}">>,
     <<"/", "*", "note", "*", "/", "{", "}">>,
     <<"{", Quote, "theme", Quote>>,
     <<Blank, NL>>,
     <<"[", "]">>,
     <<Quote, "x", Quote>>}

\* the files the configuration path of client c may hold
Files(c) ==
    {TextFile(JSONstringify(cfg)) :
        cfg \in IF c = "continue" THEN ContinueConfigs ELSE MapConfigs(TargetKey(c))}
    \cup {TextFile(t) : t \in OtherTexts}
    \cup {NoFile, File(FALSE, <<>>, TRUE), File(TRUE, <<"{", "}">>, TRUE)}

\* a record of the last function run
Run(op, client, key, before, res, read) ==
    [op |-> op, client |-> client, key |-> key, before |-> before,
     result |-> res, read |-> read]

NoResult == InstallationResult("env", FALSE, "", Undefined)

NoRun == Run("none", "env", <<>>, NoFile, NoResult, Returned(Undefined))

\* the installer's screens while its functions are looked at
ScreensAtRest ==
    /\ step = "none"
    /\ keyInput = <<>>
    /\ keyError = ""
    /\ isValidating = FALSE
    /\ keyCredits = -1
    /\ timers = <<>>
    /\ appKey = <<>>
    /\ progress = <<>>
    /\ results = <<>>

screenVars == <<step, keyInput, keyError, isValidating, keyCredits, timers, appKey, selectedClients, progress, results>>

\* the functions of one client are looked at: its configuration path holds
\* one of its files
FilesInit ==
    /\ ServerAtRest
    /\ ScreensAtRest
    /\ \E c \in Clients : \E f \in Files(c) :
          /\ selectedClients = <<c>>
          /\ fs = [t \in Targets |-> IF t = c THEN f ELSE NoFile]
    /\ last = NoRun
    /\ installs = 0

\* readConfigSafely(getConfigPaths()[c])
ReadConfig(c) ==
    /\ selectedClients = <<c>>
    /\ installs < MaxInstalls
    /\ last' = Run("readConfigSafely", c, <<>>, fs[c], NoResult, readConfigSafely(fs[c]))
    /\ installs' = installs + 1
    /\ UNCHANGED fs
    /\ UNCHANGED screenVars
    /\ UNCHANGED <<callVars, mainVars, slotVars>>

\* installFor<c>(key)
RunInstall(c, key) ==
    /\ selectedClients = <<c>>
    /\ installs < MaxInstalls
    /\ \E done \in {installationMap(c, fs[c], key)} :
          /\ fs' = [fs EXCEPT ![c] = done.file]
          /\ last' = Run("install", c, key, fs[c], done.result, Returned(Undefined))
    /\ installs' = installs + 1
    /\ UNCHANGED screenVars
    /\ UNCHANGED <<callVars, mainVars, slotVars>>

FilesNext ==
    \/ \E c \in Clients : ReadConfig(c)
    \/ \E c \in Clients : \E key \in InstallKeys : RunInstall(c, key)

SpecFiles == FilesInit /\ [][FilesNext]_vars

----------------------------------------------------------------------------
(* The Ink installer's screens: InstallerApp and its step components *)

\* credits === null
NoCredits == -1

\* what validateApiKey hands to the LeadMagicClient constructor: the key
\* itself, a string; a configuration object would be { apiKey: key }
JsString(text) == [js |-> "string", apiKey |-> <<Unset>>, text |-> text]

JsConfig(key) == [js |-> "object", apiKey |-> key, text |-> <<>>]

\* config.apiKey: a property that a string does not have is undefined
ApiKeyOf(config) == IF config.js = "object" THEN config.apiKey ELSE <<Unset>>

\* the constructor of LeadMagicClient throws 'LeadMagic API key is required'
\*   if (!config.apiKey)
NewClientThrows(config) == Falsy(ApiKeyOf(config))

ShortKey == "Invalid API key. Please enter a valid key from LeadMagic."

InvalidKey == "Invalid API Key. Please check the key and try again."

CouldNotConnect == "Could not connect to the LeadMagic API. Please check your network connection."

\* what the LeadMagic API answers to the credits request of a key
InkAnswers ==
    {Answer("response", 200, Body("object", ShapeFields, Absent, Absent), ""),
     Answer("response", 401, Body("object", {}, "unauthorized", "Invalid API key"), ""),
     Answer("no_response", 0, NoBody, "ECONNREFUSED")}

\* the API accepts the key: the credits request succeeds
Accepts(a) == a.kind = "response" /\ a.status = 200

\* the characters typed into the API-key step
KeyChars == {"k"}

\* ApiKeyInput is mounted: useState('') , useState(''), useState(false),
\* useState(null)
ApiKeyInputMounts ==
    /\ keyInput' = <<>>
    /\ keyError' = ""
    /\ isValidating' = FALSE
    /\ keyCredits' = NoCredits
    /\ last' = NoRun

appVars == <<appKey, selectedClients, progress, results, fs, installs>>

InkInit ==
    /\ impl = "enhanced"
    /\ pc = "idle"
    /\ call = NoCall
    /\ requests = <<>>
    /\ answer \in InkAnswers
    /\ outcome = NotSettled
    /\ result = NoResponse
    /\ errIn = NoException
    /\ errOut = NoResponse
    /\ MainAtRest
    /\ SlotsAtRest
    /\ step = "welcome"
    /\ keyInput = <<>>
    /\ keyError = ""
    /\ isValidating = FALSE
    /\ keyCredits = NoCredits
    /\ timers = <<>>
    /\ appKey = <<>>
    /\ selectedClients = <<>>
    /\ progress = <<>>
    /\ results = <<>>
    /\ fs = [t \in Targets |-> NoFile]
    /\ last = NoRun
    /\ installs = 0

\* Welcome: ENTER or the space bar
WelcomeNext ==
    /\ step = "welcome"
    /\ step' = "apiKey"
    /\ ApiKeyInputMounts
    /\ UNCHANGED <<timers, appVars>>
    /\ UNCHANGED <<callVars, mainVars, slotVars>>

\* ApiKeyInput: a character is typed
TypeChar(ch) ==
    /\ step = "apiKey"
    /\ Len(keyInput) < MaxInput
    /\ keyInput' = Append(keyInput, ch)
    /\ UNCHANGED <<step, keyError, isValidating, keyCredits, timers, last, appVars>>
    /\ UNCHANGED <<callVars, mainVars, slotVars>>

\* ApiKeyInput: backspace or delete, current.slice(0, -1)
Backspace ==
    /\ step = "apiKey"
    /\ keyInput' = SubSeq(keyInput, 1, Len(keyInput) - 1)
    /\ UNCHANGED <<step, keyError, isValidating, keyCredits, timers, last, appVars>>
    /\ UNCHANGED <<callVars, mainVars, slotVars>>

\* ApiKeyInput: ESC, onBack; the component is unmounted
ApiKeyBack ==
    /\ step = "apiKey"
    /\ step' = "welcome"
    /\ ApiKeyInputMounts
    /\ UNCHANGED <<timers, appVars>>
    /\ UNCHANGED <<callVars, mainVars, slotVars>>

\* ApiKeyInput: ENTER. A key under 10 characters is refused; otherwise
\* validateApiKey(input) runs to its first await: the constructor is given
\* the key, and when it throws, the catch and finally blocks run at once
\* (the error is no LeadMagicError)
ApiKeyEnter ==
    /\ step = "apiKey"
    /\ IF Len(keyInput) < 10
       THEN /\ keyError' = ShortKey
            /\ UNCHANGED <<isValidating, keyCredits, last, requests>>
       ELSE /\ last' = Run("validateApiKey", "env", keyInput, NoFile, NoResult,
                           Returned(Undefined))
            /\ keyCredits' = NoCredits
            /\ IF NewClientThrows(JsString(keyInput))
               THEN /\ keyError' = CouldNotConnect
                    /\ isValidating' = FALSE
                    /\ UNCHANGED requests
               ELSE /\ keyError' = ""
                    /\ isValidating' = TRUE
                    /\ requests' = requests \o ClientRequests("get_credits", EmptyObject)
    /\ UNCHANGED <<step, keyInput, timers, appVars>>
    /\ UNCHANGED <<impl, pc, call, answer, outcome, result, errIn, errOut>>
    /\ UNCHANGED <<mainVars, slotVars>>

\* validateApiKey behind its await: client.getCredits() has settled. No
\* run gets here, the constructor having thrown; the step is part of no
\* next-state relation
GetCreditsSettles ==
    /\ requests # <<>>
    /\ requests' = Tail(requests)
    /\ isValidating' = FALSE
    /\ IF ClientSettle(impl, answer).kind = "resolved"
       THEN /\ keyCredits' = 1
            /\ timers' = Append(timers, last.key)
            /\ UNCHANGED keyError
       ELSE /\ keyError' = IF isClientError(ClientSettle(impl, answer).error)
                           THEN InvalidKey ELSE CouldNotConnect
            /\ UNCHANGED <<keyCredits, timers>>
    /\ UNCHANGED <<step, keyInput, last, appVars>>
    /\ UNCHANGED <<impl, pc, call, answer, outcome, result, errIn, errOut>>
    /\ UNCHANGED <<mainVars, slotVars>>

\* setTimeout(() => onNext(key), 1500) fires: setApiKey(key);
\* setStep('clientSelection'). Like GetCreditsSettles it is never scheduled
TimerFires ==
    /\ timers # <<>>
    /\ timers' = Tail(timers)
    /\ appKey' = Head(timers)
    /\ step' = "clientSelection"
    /\ UNCHANGED <<keyInput, keyError, isValidating, keyCredits, last>>
    /\ UNCHANGED <<selectedClients, progress, results, fs, installs>>
    /\ UNCHANGED <<callVars, mainVars, slotVars>>

InkNext ==
    \/ WelcomeNext
    \/ \E ch \in KeyChars : TypeChar(ch)
    \/ Backspace
    \/ ApiKeyBack
    \/ ApiKeyEnter

SpecInk == InkInit /\ [][InkNext]_vars

----------------------------------------------------------------------------
(* The steps behind the API key: client selection, installation, result *)

\* the ids of ClientSelection's list, in its order
Options == <<"all", "claude", "cursor", "vscode", "continue", "zed", "windsurf", "env", "manual">>

\* the list handed to onNext for the option chosen
SelectedFor(id) ==
    IF id = "env" THEN <<"env">>
    ELSE IF id = "all" THEN <<"claude", "cursor", "windsurf", "continue", "vscode", "zed">>
    ELSE <<id>>

ClientsToInstall_asSelected(selected) == selected

\* selectedClients.includes('env') ? ['env'] : [...selectedClients, 'env']
ClientsToInstall(selected) ==
    IF \E i \in 1..Len(selected) : selected[i] = "env" THEN <<"env">>
    ELSE Append(selected, "env")

StepAfter_stopOnFailure(res) == IF res.success THEN "installing" ELSE "error"

\* the step after a result has been pushed: the loop does not look at it
StepAfter(res) == "installing"

\* a file the installation step may find at the path of target t
StepFile(t, kind) ==
    CASE kind = "invalid" -> TextFile(<<"{", Quote, "theme", Quote>>)
      [] kind = "denied" -> File(FALSE, <<>>, TRUE)
      [] kind = "valid" ->
            IF t = "env" THEN TextFile(EnvContent(Repeat("o", 10)))
            ELSE IF t = "continue"
            THEN TextFile(JSONstringify(JObject(<<Member(<<"mcpServers">>,
                     JArray(<<NamedServer("other", <<"x">>)>>))>>)))
            ELSE TextFile(JSONstringify(JObject(<<Dark, Member(TargetKey(t),
                     JObject(<<Member(<<"other">>, OtherServer)>>))>>)))

\* the disks the installation step runs on: no file anywhere, or one kind
\* of file at one path or at all of them
StepFileSystems ==
    {[t \in Targets |-> IF t \in S THEN StepFile(t, kind) ELSE NoFile] :
        S \in {{}, Targets} \cup {{t} : t \in Targets},
        kind \in {"valid", "invalid", "denied"}}

\* the client selection is on screen, a key having been stored
StepInit ==
    /\ ServerAtRest
    /\ step = "clientSelection"
    /\ keyInput = <<>>
    /\ keyError = ""
    /\ isValidating = FALSE
    /\ keyCredits = NoCredits
    /\ timers = <<>>
    /\ appKey \in InstallKeys
    /\ selectedClients = <<>>
    /\ progress = <<>>
    /\ results = <<>>
    /\ fs \in StepFileSystems
    /\ last = NoRun
    /\ installs = 0

\* ClientSelection: ENTER on the option id
Select(id) ==
    /\ step = "clientSelection"
    /\ IF id = "manual"
       THEN /\ step' = "manualSetup"
            /\ UNCHANGED <<selectedClients, progress, installs>>
       ELSE /\ step' = "installing"
            /\ selectedClients' = SelectedFor(id)
            /\ progress' = <<>>
            /\ installs' = 0
    /\ UNCHANGED <<keyInput, keyError, isValidating, keyCredits, timers, appKey, results, fs, last>>
    /\ UNCHANGED <<callVars, mainVars, slotVars>>

\* ClientSelection: ESC, onBack
SelectionBack ==
    /\ step = "clientSelection"
    /\ step' = "apiKey"
    /\ ApiKeyInputMounts
    /\ UNCHANGED <<timers, appVars>>
    /\ UNCHANGED <<callVars, mainVars, slotVars>>

\* ManualSetup: ESC, onBack
ManualBack ==
    /\ step = "manualSetup"
    /\ step' = "clientSelection"
    /\ UNCHANGED <<keyInput, keyError, isValidating, keyCredits, timers, last, appVars>>
    /\ UNCHANGED <<callVars, mainVars, slotVars>>

\* InstallationProgress: one turn of the loop, behind its 200 ms timer:
\*   result = installFunction(apiKey); allResults.push(result); setProgress
InstallOne ==
    /\ step = "installing"
    /\ installs < Len(ClientsToInstall(selectedClients))
    /\ \E done \in {installationMap(ClientsToInstall(selectedClients)[installs + 1],
                                   fs[ClientsToInstall(selectedClients)[installs + 1]],
                                   appKey)} :
          /\ fs' = [fs EXCEPT ![ClientsToInstall(selectedClients)[installs + 1]] = done.file]
          /\ progress' = Append(progress, done.result)
          /\ step' = StepAfter(done.result)
    /\ installs' = installs + 1
    /\ UNCHANGED <<keyInput, keyError, isValidating, keyCredits, timers, appKey, selectedClients, results, last>>
    /\ UNCHANGED <<callVars, mainVars, slotVars>>

\* InstallationProgress: the loop is over, onComplete(allResults):
\*   setResults(res); setStep('complete')
OnComplete ==
    /\ step = "installing"
    /\ installs = Len(ClientsToInstall(selectedClients))
    /\ results' = progress
    /\ step' = "complete"
    /\ UNCHANGED <<keyInput, keyError, isValidating, keyCredits, timers, appKey, selectedClients, progress, fs, last, installs>>
    /\ UNCHANGED <<callVars, mainVars, slotVars>>

\* InstallationComplete: any key, exit()
ExitKey ==
    /\ step = "complete"
    /\ step' = "exited"
    /\ UNCHANGED <<keyInput, keyError, isValidating, keyCredits, timers, last, appVars>>
    /\ UNCHANGED <<callVars, mainVars, slotVars>>

StepNext ==
    \/ \E i \in 1..Len(Options) : Select(Options[i])
    \/ SelectionBack
    \/ ManualBack
    \/ InstallOne
    \/ OnComplete
    \/ ExitKey
    \/ InkNext

SpecStep == StepInit /\ [][StepNext]_vars

\* ---- what the screens show ----

Bullet == "<bullet>"

\* JSON.stringify(value): no white space
RECURSIVE Compact(_)
RECURSIVE CompactItems(_, _, _)
Compact(v) ==
    IF v.kind = "string" THEN <<Quote>> \o v.text \o <<Quote>>
    ELSE <<IF v.kind = "object" THEN "{" ELSE "[">>
         \o (IF v.items = <<>> THEN <<>> ELSE CompactItems(v.kind, v.items, 1))
         \o <<IF v.kind = "object" THEN "}" ELSE "]">>

CompactItems(kind, items, i) ==
    (IF kind = "object" THEN <<Quote>> \o items[i].key \o <<Quote, ":">> ELSE <<>>)
    \o Compact(items[i].val)
    \o (IF i = Len(items) THEN <<>> ELSE <<",">> \o CompactItems(kind, items, i + 1))

\* the lines of the step on screen that are made from state
Screen ==
    CASE step = "apiKey" ->
            {IF keyInput # <<>> THEN Repeat(Bullet, Len(keyInput)) ELSE <<"(typing...)">>}
            \cup (IF keyError # "" /\ ~isValidating THEN {<<keyError>>} ELSE {})
            \cup (IF keyCredits # NoCredits /\ ~isValidating
                  THEN {<<"Success! You have credits remaining.">>} ELSE {})
      [] step = "installing" ->
            {<<progress[i].client, ": ", progress[i].message>> : i \in 1..Len(progress)}
      [] step = "complete" ->
            {<<results[i].client, " configured at: ", results[i].configPath>> :
                i \in {j \in 1..Len(results) : results[j].success}}
            \cup {Compact(results[i].configAdded) :
                i \in {j \in 1..Len(results) :
                          results[j].success /\ results[j].configAdded # Undefined}}
            \cup {<<results[i].client, ": ", results[i].message>> :
                i \in {j \in 1..Len(results) : ~results[j].success}}
      [] step = "manualSetup" ->
            {JSONstringify(JObject(<<Member(<<"mcpServers">>, JObject(<<Member(<<"leadmagic">>,
                 leadmagicServerConfig(<<"your-leadmagic-api-key">>))>>))>>))}
      [] OTHER -> {}

----------------------------------------------------------------------------
(* Properties *)

Done == pc = "done"

ErrorStatus(st) == st >= 400 /\ st <= 599

\* C1: when the remote answers with a status in 400..599 the client call
\* rejects with a LeadMagicError carrying that status and the body's error
\* and message fields (else 'API_ERROR' and the transport message); it never
\* resolves with the error body.
C1_ErrorStatusRejects ==
    (Done /\ answer.kind = "response" /\ ErrorStatus(answer.status)) =>
        /\ outcome.kind = "rejected"
        /\ outcome.error.cls = "LeadMagicError"
        /\ outcome.error.status = answer.status
        /\ outcome.error.code = OrElse(answer.body.error, "API_ERROR")
        /\ outcome.error.message =
              OrElse(answer.body.message, "Request failed with status code")

\* C2: for every tool, a 401 (429) answer is returned as the error rendering
\* with Status 401 (429) and the API-key (rate-limit) guidance, never as the
\* success rendering nor with the generic input-parameters guidance.
C2_AuthAndRateLimitGuidance ==
    (Done /\ answer.kind = "response" /\ answer.status \in {401, 429}) =>
        /\ result.kind = "error"
        /\ result.status = answer.status
        /\ result.troubleshooting =
              IF answer.status = 401 THEN CheckApiKey ELSE RateLimited

\* the required input fields, tool by tool, and what well-formed means
C3_Required ==
    [t \in {"validate_email", "find_email", "search_profile", "email_to_profile",
            "find_role", "find_employees", "find_personal_email",
            "social_to_work_email", "get_b2b_ad_details"} |->
        CASE t = "validate_email" -> {<<"email", "email">>}
          [] t = "find_email" -> {<<"first_name", "string">>, <<"last_name", "string">>}
          [] t = "search_profile" -> {<<"profile_url", "url">>}
          [] t = "email_to_profile" -> {<<"work_email", "email">>}
          [] t = "find_role" -> {<<"job_title", "string">>}
          [] t = "find_employees" -> {<<"company_name", "string">>}
          [] t = "find_personal_email" -> {<<"profile_url", "url">>}
          [] t = "social_to_work_email" -> {<<"profile_url", "url">>}
          [] t = "get_b2b_ad_details" -> {<<"ad_id", "string">>}]

C3_MissingOrMalformed(c) ==
    /\ c.tool \in DOMAIN C3_Required
    /\ \E f \in C3_Required[c.tool] :
          f[1] \notin DOMAIN c.args \/ ~FieldOk(f[2], c.args[f[1]])

\* C3: a call whose required field is missing or malformed is answered with
\* an error and issues no HTTP request; validation precedes any network call.
C3_ValidationBeforeNetwork ==
    (pc # "idle" /\ C3_MissingOrMalformed(call)) =>
        /\ requests = <<>>
        /\ pc = "done"
        /\ result.kind \in {"invalid_params", "error"}

C3_Witness ==
    /\ Done
    /\ call.tool = "find_role"
    /\ DOMAIN call.args = {"company_name"}
    /\ call.args["company_name"] = Str("Acme")
    /\ result.kind = "invalid_params"

\* C4: a transport failure without response (DNS, refused, timeout) rejects
\* with a LeadMagicError of status 0 and code 'NETWORK_ERROR' that is a
\* network error and neither a client nor a server error.
C4_NoResponseIsNetworkError ==
    (Done /\ answer.kind = "no_response") =>
        /\ outcome.kind = "rejected"
        /\ outcome.error.cls = "LeadMagicError"
        /\ outcome.error.status = 0
        /\ outcome.error.code = "NETWORK_ERROR"
        /\ isNetworkError(outcome.error)
        /\ ~isClientError(outcome.error)
        /\ ~isServerError(outcome.error)

C4_Witness ==
    /\ Done
    /\ answer.kind = "no_response"
    /\ answer.why = "ECONNABORTED"
    /\ impl = "enhanced"
    /\ outcome.error.code = "NETWORK_ERROR"

\* C5: a failure that is neither an HTTP error response nor a no-response
\* failure (request setup, non-Axios exception) yields a LeadMagicError for
\* which isClientError, isServerError and isNetworkError are all false, so it
\* gets neither the server-error nor the network guidance.
C5_OtherFailureIsUnknown ==
    (Done /\ answer.kind \in {"setup", "exception"}) =>
        /\ outcome.kind = "rejected"
        /\ ~isClientError(outcome.error)
        /\ ~isServerError(outcome.error)
        /\ ~isNetworkError(outcome.error)
        /\ result.troubleshooting \notin {ServerTrouble, NetworkTrouble}

\* the guidance by status
C6_Guidance(st) ==
    CASE st = 401 -> CheckApiKey
      [] st = 429 -> RateLimited
      [] st = 400 -> CheckRequired
      [] st >= 400 /\ st <= 499 /\ st \notin {400, 401, 429} -> VerifyParams
      [] st >= 500 /\ st <= 599 -> ServerTrouble
      [] st = 0 -> NetworkTrouble

C6_Classes(e) ==
    {c \in {"client", "server", "network"} :
        \/ c = "client" /\ isClientError(e)
        \/ c = "server" /\ isServerError(e)
        \/ c = "network" /\ isNetworkError(e)}

\* C6: handleError gives a LeadMagicError the guidance of its status alone
\* (401, 429, 400, other 4xx, 5xx, 0), and for every status at most one of
\* isClientError, isServerError, isNetworkError is true.
C6_GuidanceByStatus ==
    (errOut # NoResponse /\ errIn.cls = "LeadMagicError") =>
        /\ Cardinality(C6_Classes(errIn)) <= 1
        /\ (errIn.status = 0 \/ ErrorStatus(errIn.status)) =>
              /\ errOut.kind = "error"
              /\ errOut.troubleshooting = C6_Guidance(errIn.status)
              /\ Cardinality(C6_Classes(errIn)) = 1

C6_Witness ==
    /\ errIn.cls = "LeadMagicError"
    /\ errIn.status = 429
    /\ errIn.code = "API_ERROR"
    /\ errOut.troubleshooting = RateLimited

\* C7: for every value that reaches handleError the text has a readable
\* message, a status/code pair and a non-empty troubleshooting line.
C7_ThreeParts ==
    (Done /\ result.kind = "error") =>
        /\ result.headline # ""
        /\ result.details \in {"code_status", "type"}
        /\ result.troubleshooting # ""

\* C8: every rejection a client operation surfaces to a handler is a
\* LeadMagicError, never a raw Axios error or other exception.
C8_RejectionsAreLeadMagicErrors ==
    outcome.kind = "rejected" => outcome.error.cls = "LeadMagicError"

C8_Witness ==
    /\ Done
    /\ answer.kind = "exception"
    /\ outcome.kind = "rejected"
    /\ outcome.error.cls = "LeadMagicError"

C10_FailedRequestRetried ==
    (Done /\ (\/ answer.kind = "no_response"
              \/ answer.kind = "response" /\ answer.status >= 500
                    /\ answer.status <= 599)) =>
        Len(requests) >= 2

\* the pagination defaults the schemas declare
C11_Defaults(t) ==
    IF t \in {"find_jobs", "find_employees"}
    THEN [k \in {"page", "per_page"} |-> IF k = "page" THEN Num(1) ELSE Num(20)]
    ELSE EmptyObject

\* C11: for every POST operation and every accepted input the request body
\* has the input's keys with the input's values, nothing dropped, renamed or
\* coerced, no null entry for an absent optional field; the only keys added
\* are the pagination defaults.
C11_BodyIsValidatedInput ==
    (pc # "idle" /\ call.accepted /\ ClientMethod(call.tool) = "POST") =>
        LET body == requests[1].body
            added == DOMAIN C11_Defaults(call.tool) \ DOMAIN call.args
        IN /\ requests[1].hasBody
           /\ DOMAIN body = DOMAIN call.args \cup added
           /\ \A k \in DOMAIN call.args : body[k] = call.args[k]
           /\ \A k \in added : body[k] = C11_Defaults(call.tool)[k]
           /\ \A k \in DOMAIN body : body[k] # Null

C11_Witness ==
    /\ pc = "awaiting"
    /\ call.tool = "find_email"
    /\ DOMAIN call.args = {"first_name", "last_name", "domain"}
    /\ requests[1].method = "POST"
    /\ DOMAIN requests[1].body = {"first_name", "last_name", "domain"}
    /\ requests[1].body["domain"] = Str("Acme")

C12_OutOfRange(args) ==
    \/ "per_page" \in DOMAIN args /\ args["per_page"].kind = "num"
          /\ (args["per_page"].n > 50 \/ args["per_page"].n < 1)
    \/ "page" \in DOMAIN args /\ args["page"].kind = "num" /\ args["page"].n < 1

\* C12: for find_jobs and find_employees the body has page = 1 when page is
\* omitted and per_page = 20 when per_page is omitted; per_page above 50 or
\* below 1, or page below 1, ends in an error response without any request.
C12_PaginationDefaultsAndLimits ==
    (pc # "idle" /\ call.tool \in {"find_jobs", "find_employees"}) =>
        /\ C12_OutOfRange(call.args) =>
              /\ requests = <<>>
              /\ pc = "done"
              /\ result.kind \in {"invalid_params", "error"}
        /\ call.accepted =>
              /\ "page" \notin DOMAIN call.args => requests[1].body["page"] = Num(1)
              /\ "per_page" \notin DOMAIN call.args =>
                    requests[1].body["per_page"] = Num(20)

C12_Witness ==
    /\ pc = "awaiting"
    /\ call.tool = "find_employees"
    /\ DOMAIN call.args = {"company_name"}
    /\ requests[1].body["page"] = Num(1)
    /\ requests[1].body["per_page"] = Num(20)

\* the alternative identifiers, tool by tool, and what well-formed means
C13_Identifiers(t) ==
    CASE t = "search_company" ->
            {<<"company_domain", "string">>, <<"company_name", "string">>,
             <<"profile_url", "url">>}
      [] t = "find_mobile" ->
            {<<"profile_url", "url">>, <<"work_email", "email">>,
             <<"personal_email", "email">>}
      [] t \in {"get_company_funding", "search_google_ads", "search_meta_ads",
                "search_b2b_ads"} ->
            {<<"company_domain", "string">>, <<"company_name", "string">>}
      [] OTHER -> {}

C13_WellFormedSubset(c) ==
    /\ DOMAIN c.args # {}
    /\ \A k \in DOMAIN c.args :
          \E f \in C13_Identifiers(c.tool) : f[1] = k /\ FieldOk(f[2], c.args[k])

\* C13: for the tools with alternative identifiers every non-empty subset of
\* well-formed identifiers is accepted and leads to exactly one request whose
\* body is exactly that subset.
C13_AnySubsetAccepted ==
    (pc # "idle" /\ C13_WellFormedSubset(call)) =>
        /\ call.accepted
        /\ Len(requests) = 1
        /\ requests[1].body = call.args

C13_Witness ==
    /\ pc = "done"
    /\ call.tool = "search_company"
    /\ DOMAIN call.args = {"company_domain", "company_name", "profile_url"}
    /\ C13_WellFormedSubset(call)
    /\ Len(requests) = 1
    /\ requests[1].body = call.args

\* a body that does not have the shape the tool declares for its response
C14_Mismatch(t, body) ==
    \/ t = "get_credits" /\ body.kind = "object" /\ "credits" \notin body.fields
    \/ t = "find_jobs" /\ body.kind = "object" /\ "total_count" \notin body.fields
    \/ t \in AdsTools /\ body.kind = "object" /\ "ads" \notin body.fields
    \/ t \in {"get_job_countries", "get_job_types"} /\ body.kind = "object"

\* C14: a 2xx response whose body does not match the declared response shape
\* is returned as a success rendering containing the received payload, never
\* as an error response.
C14_MismatchStillSuccess ==
    (Done /\ answer.kind = "response" /\ answer.status >= 200
          /\ answer.status <= 299 /\ C14_Mismatch(call.tool, answer.body)) =>
        /\ result.kind = "success"
        /\ result.hasData
        /\ result.data.kind = answer.body.kind

\* C15: every invocation ends by returning a response whose content is
\* exactly one text item, the success rendering or the error rendering,
\* whatever validation, the HTTP call and the summary formatting do.
C15_AlwaysOneTextItem ==
    Done =>
        /\ result.kind \in {"success", "error"}
        /\ result.content = <<"text">>

\* C16: 19 tools are registered under pairwise distinct names, the count
\* getServerInfo reports; tool -> (method, path) is one-to-one, 17 tools POST
\* a JSON body to 17 distinct paths, get_job_countries and get_job_types GET
\* /job-country and /job-types without body.
C16_NineteenToolsOneToOne ==
    /\ Len(RegisteredTools) = 19
    /\ \A i, j \in 1..Len(RegisteredTools) :
          i # j => RegisteredTools[i] # RegisteredTools[j]
    /\ {RegisteredTools[i] : i \in 1..Len(RegisteredTools)} = Tools
    /\ toolCount = Len(RegisteredTools)
    /\ \A t, u \in Tools :
          t # u => <<ClientMethod(t), ClientPath(t)>> # <<ClientMethod(u), ClientPath(u)>>
    /\ Cardinality({t \in Tools : ClientMethod(t) = "POST"}) = 17
    /\ Cardinality({ClientPath(t) : t \in {u \in Tools : ClientMethod(u) = "POST"}}) = 17
    /\ {t \in Tools : ClientMethod(t) = "GET"} = {"get_job_countries", "get_job_types"}
    /\ (pc # "idle" /\ call.accepted) =>
          /\ Len(requests) = 1
          /\ requests[1].hasBody = (call.tool \notin {"get_job_countries", "get_job_types"})
          /\ requests[1].method = IF requests[1].hasBody THEN "POST" ELSE "GET"
          /\ call.tool = "get_job_countries" => requests[1].path = "/job-country"
          /\ call.tool = "get_job_types" => requests[1].path = "/job-types"

C16_Witness ==
    /\ pc = "awaiting"
    /\ call.tool = "get_job_types"
    /\ requests = <<[method |-> "GET", path |-> "/job-types", hasBody |-> FALSE, body |-> EmptyObject]>>

\* text contains key as a run of consecutive characters
Contains(text, key) ==
    \E i \in 0..(Len(text) - Len(key)) : SubSeq(text, i + 1, i + Len(key)) = key

\* the key is neither unset nor empty nor blank
C17_HasKey == ~Falsy(env.LEADMAGIC_API_KEY) /\ Trim(env.LEADMAGIC_API_KEY) # <<>>

\* C17: for every non-empty API key, whatever its length, no output (startup
\* log line, getConfig, getServerInfo, tool responses) contains the whole key.
C17_KeyNeverInOutput ==
    C17_HasKey =>
        \A o \in out : ~Contains(o.text, Trim(env.LEADMAGIC_API_KEY))

\* the number LEADMAGIC_TIMEOUT stands for
C18_Milliseconds(t) == IF t = "5000" THEN 5000 ELSE DefaultTimeout

\* C18: every HTTP request uses LEADMAGIC_BASE_URL and LEADMAGIC_TIMEOUT when
\* they are set at startup, and https://api.leadmagic.io and 30000 ms when
\* they are not.
C18_EnvOverridesUsed ==
    \A r \in sent :
        /\ r.baseURL = IF env.LEADMAGIC_BASE_URL = Unset
                       THEN "https://api.leadmagic.io" ELSE env.LEADMAGIC_BASE_URL
        /\ r.timeout = IF env.LEADMAGIC_TIMEOUT = Unset
                       THEN 30000 ELSE C18_Milliseconds(env.LEADMAGIC_TIMEOUT)

C19_Blank == Falsy(env.LEADMAGIC_API_KEY) \/ Trim(env.LEADMAGIC_API_KEY) = <<>>

\* C19: with LEADMAGIC_API_KEY unset, empty or blank the process prints
\* remediation steps and exits with code 1, never connects a server and never
\* issues a request; with a non-blank key the server is created and connected.
C19_BlankKeyExits ==
    /\ C19_Blank =>
          /\ conn = "none"
          /\ sent = {}
          /\ (~Running /\ exit.cause # "signal") =>
                /\ exit.code = 1
                /\ out \cap {KeyNotFoundHelp, InvalidKeyHelp} # {}
    /\ ~C19_Blank =>
          /\ exit.cause # "missing_key"
          /\ mpc \notin {"start", "checked"} => server # NoServer
          /\ mpc = "running" => conn = "connected"

\* C20: once the server is created, a SIGINT or SIGTERM (before, during or
\* after connect) ends the process only after server.close() has been called
\* and has settled, with exit code 0 when close succeeded.
C20_SignalClosesServer ==
    (server # NoServer /\ exit.cause \in {"signal", "shutdown", "close_failed"}) =>
        /\ shutdown \in {"closed", "failed"}
        /\ shutdown = "closed" => exit.code = 0

\* C29: for the tools whose input fields are all optional an invocation with
\* an empty parameter object is accepted and issues exactly one request; a
\* call is never refused for carrying no identifier.
C29_EmptyInputAccepted ==
    (pc # "idle" /\ call.args = EmptyObject
        /\ call.tool \in {"search_company", "find_mobile", "get_company_funding",
                          "search_google_ads", "search_meta_ads",
                          "search_b2b_ads", "find_jobs"}) =>
        /\ call.accepted
        /\ Len(requests) = 1
        /\ result.kind # "invalid_params"

C29_Witness ==
    /\ pc = "awaiting"
    /\ call.tool = "search_company"
    /\ call.args = EmptyObject
    /\ Len(requests) = 1
    /\ requests[1].path = "/company-search"
    /\ requests[1].body = EmptyObject

Existing(f) ==
    IF f.exists /\ JSONparse(f.content).ok THEN JSONparse(f.content).val
    ELSE readConfigSafely(f).val

\* the configuration the file of client c holds now
Written(c) == JSONparse(fs[c].content).val

\* the members of an object other than the one under k, in order
Others(obj, k) == SelectSeq(obj.items, LAMBDA m : m.key # k)

\* C24: readConfigSafely returns the parsed configuration, or an empty
\* object when the file does not exist or its content is invalid; it never
\* throws because of the file's content.
C24_ParsedOrEmpty ==
    (last.op = "readConfigSafely" /\ ~last.before.denied) =>
        /\ ~last.read.thrown
        /\ last.read.val =
              IF last.before.exists /\ JSONparse(last.before.content).ok
              THEN JSONparse(last.before.content).val
              ELSE JObject(<<>>)

\* the array under mcpServers holds exactly one entry named leadmagic, the
\* one built from key
C25_OneLeadmagic(servers, key) ==
    /\ servers.kind = "array"
    /\ Cardinality({i \in 1..Len(servers.items) : ~NotLeadmagic(servers.items[i])}) = 1
    /\ \E i \in 1..Len(servers.items) : servers.items[i].val = ContinueServerConfig(key)

\* C25: after any number of runs of installForContinue the mcpServers array
\* holds exactly one entry named leadmagic, with the key of the last run, and
\* every entry with another name is kept in its original relative order.
C25_ContinueIdempotent ==
    (last.op = "install" /\ last.client = "continue" /\ last.result.success) =>
        /\ Written("continue").kind = "object"
        /\ C25_OneLeadmagic(ServersOf(Written("continue")), last.key)
        /\ ServersOf(Existing(last.before)).kind = "array" =>
              SelectSeq(ServersOf(Written("continue")).items, NotLeadmagic)
                  = SelectSeq(ServersOf(Existing(last.before)).items, NotLeadmagic)

\* what a successful install for a map client leaves of the configuration
\* old in the configuration new: the other top-level members, the other
\* entries of the target map, and the leadmagic entry built from key
C26_FrameKept(old, new, k, key) ==
    /\ new.kind = "object"
    /\ Others(new, k) = Others(old, k)
    /\ GetMember(new, k).kind = "object"
    /\ GetMember(GetMember(new, k), <<"leadmagic">>) = leadmagicServerConfig(key)
    /\ GetMember(old, k).kind = "object" =>
          Others(GetMember(new, k), <<"leadmagic">>) = Others(GetMember(old, k), <<"leadmagic">>)

\* C26: installing for Claude, Cursor, Windsurf, VS Code or Zed changes only
\* the leadmagic entry of the target map: every other top-level key of the
\* existing configuration and every other entry of the map is written back
\* unchanged, and a failed installation leaves the file as it was.
C26_OnlyLeadmagicChanges ==
    (last.op = "install" /\ last.client \in MapClients) =>
        IF last.result.success
        THEN Existing(last.before).kind = "object" =>
                 C26_FrameKept(Existing(last.before), Written(last.client),
                               TargetKey(last.client), last.key)
        ELSE fs[last.client] = last.before

\* C22: submitting, in the API-key step, a key of at least 10 characters
\* that the LeadMagic API accepts starts a validation that shows the
\* remaining credits: once such a key has been submitted, no error is on
\* screen and the credits request is in flight or the credits are shown.
C22_AcceptedKeyAdvances ==
    (/\ step = "apiKey"
     /\ last.op = "validateApiKey"
     /\ Len(last.key) >= 10
     /\ last.key = keyInput
     /\ Accepts(answer))
        => /\ keyError = ""
           /\ isValidating \/ keyCredits # NoCredits

\* the client names of a list of results
Names(rs) == [i \in 1..Len(rs) |-> rs[i].client]

\* C23: the results of a finished installation step have one entry per
\* selected client, in selection order, followed by one '.env file' entry;
\* for the selection of the .env file alone only that entry; for all
\* supported clients Claude, Cursor, Windsurf, Continue, VS Code, Zed and
\* then .env; the .env file is processed exactly once.
C23_EnvOnceAndLast ==
    step \in {"complete", "exited"} =>
        /\ IF selectedClients = <<"env">>
           THEN Names(results) = <<".env file">>
           ELSE Names(results)
                    = [i \in 1..Len(selectedClients) |-> ClientName(selectedClients[i])]
                      \o <<".env file">>
        /\ Cardinality({i \in 1..Len(results) : results[i].client = ".env file"}) = 1
        /\ Len(selectedClients) = 6 =>
               Names(results) = <<"Claude Desktop", "Cursor (Cline)", "Windsurf",
                                  "Continue.dev", "VS Code", "Zed Editor", ".env file">>

C23_Witness ==
    /\ step = "complete"
    /\ Len(selectedClients) = 6
    /\ Len(results) = 7
    /\ results[7].client = ".env file"

\* the file at the path of target t cannot be configured: no permission,
\* or, for a client, an existing file that is no JSON
C27_Unusable(t) ==
    \/ fs[t] = StepFile(t, "denied")
    \/ t # "env" /\ fs[t] = StepFile(t, "invalid")

\* C27: a failure to configure one client is recorded as a result with
\* success = false and does not stop the run: the results follow the list of
\* targets one by one whatever their outcome, the loop can always take its
\* next turn or complete, the finished run holds a result for every target,
\* and the step is never 'error'.
C27_FailureDoesNotStop ==
    /\ step # "error"
    /\ step \in {"installing", "complete"} =>
          /\ installs = Len(progress)
          /\ installs <= Len(ClientsToInstall(selectedClients))
          /\ \A i \in 1..Len(progress) :
                /\ progress[i].client = ClientName(ClientsToInstall(selectedClients)[i])
                /\ progress[i].success = ~C27_Unusable(ClientsToInstall(selectedClients)[i])
    /\ step = "complete" =>
          /\ results = progress
          /\ Len(results) = Len(ClientsToInstall(selectedClients))

C27_Witness ==
    /\ step = "complete"
    /\ Len(results) = 7
    /\ \A i \in 1..7 : ~results[i].success

====
